---------------------------- MODULE Spec2Model ----------------------------
(***************************************************************************)
(* Model of modules/strategies.py: the pure price-action strategy.         *)
(*                                                                         *)
(* Prices and volumes are integers (ticks).  Every threshold of the code   *)
(* is a decimal ratio, so each comparison  a > b * 0.9  is written in      *)
(* exact integer arithmetic as  10 * a > 9 * b.  A quotient the code       *)
(* stores (momentum, volume ratio, distance from a level) is kept as a     *)
(* fraction [num, den] and compared by cross multiplication.               *)
(*                                                                         *)
(* Rows are numbered as in the code (from 0); row i of a frame is the      *)
(* sequence element i + 1.                                                 *)
(***************************************************************************)
EXTENDS Integers, Sequences, FiniteSets, TLC

VARIABLES
    self,       \* the strategy instance (parameters, history, last_signal, _warning_count)
    params,     \* the arguments of the last constructor call
    klines,     \* the argument of the last get_signal call
    df,         \* the frame the last get_signal call built (rows, and which column groups exist)
    result,     \* what the last operation returned
    raised,     \* the exception the last operation let propagate ("" when none)
    log,        \* the log records the last operation emitted, in order
    trace,      \* the pipeline stages the last get_signal call entered, in order
    feed,       \* the regime of the caller that polls the strategy
    polls,      \* number of get_signal calls made so far
    appended,   \* every entry ever appended to signal_history, in order
    op,         \* the last operation: "", "__init__" or "get_signal"
    calc,       \* the last call of a TradingStrategy calculation: function, arguments, outcome
    pair        \* a caller holding two instances: the objects created, the two held, the calls

vars == <<self, params, klines, df, result, raised, log, trace, feed, polls, appended, op, calc, pair>>

---------------------------------------------------------------------------
(* Values *)

\* float('nan') / None in a numeric column
NaN == -1000000

\* a raw field that is not a number (a string that does not parse)
Junk == -2000000

IsNaN(x) == x = NaN

\* comparisons of floats: any comparison with NaN is False
Lt(a, b) == a # NaN /\ b # NaN /\ a < b
Le(a, b) == a # NaN /\ b # NaN /\ a <= b
Gt(a, b) == a # NaN /\ b # NaN /\ a > b
Ge(a, b) == a # NaN /\ b # NaN /\ a >= b

Abs(x) == IF x < 0 THEN -x ELSE x
Max2(a, b) == IF a >= b THEN a ELSE b
Min2(a, b) == IF a <= b THEN a ELSE b
SetMax(S) == CHOOSE x \in S : \A y \in S : y <= x
SetMin(S) == CHOOSE x \in S : \A y \in S : x <= y

\* a quotient num / den of two floats; NaN when an operand is NaN or it is 0 / 0
Frac(n, d) ==
    IF n = NaN \/ d = NaN \/ (n = 0 /\ d = 0) THEN [num |-> NaN, den |-> 1]
    ELSE [num |-> n, den |-> d]
FracNaN == [num |-> NaN, den |-> 1]
FracIsNaN(f) == f.num = NaN

\* f > tn / td and f < tn / td for td > 0; x / 0 is +inf or -inf as numpy computes it
FracGt(f, tn, td) ==
    /\ f.num # NaN
    /\ IF f.den > 0 THEN f.num * td > tn * f.den
       ELSE IF f.den < 0 THEN f.num * td < tn * f.den
       ELSE f.num > 0
FracLt(f, tn, td) ==
    /\ f.num # NaN
    /\ IF f.den > 0 THEN f.num * td < tn * f.den
       ELSE IF f.den < 0 THEN f.num * td > tn * f.den
       ELSE f.num < 0

---------------------------------------------------------------------------
(* Frames: a sequence of rows, each row a record of columns *)

\* a function on 1..n held as the list of its values
List(f) == SubSeq(f, 1, Len(f))

Column(rows, name) == List([k \in 1..Len(rows) |-> rows[k][name]])
SetColumn(rows, name, col) == List([k \in 1..Len(rows) |-> [rows[k] EXCEPT ![name] = col[k]]])
AnyNaN(col) == \E k \in DOMAIN col : col[k] = NaN

\* Series.interpolate(method='linear'): NaN between two valid values is filled on the
\* straight line between them, NaN after the last valid value takes that value, NaN
\* before the first valid value stays NaN
Interpolate(col) ==
    LET valid == {j \in DOMAIN col : col[j] # NaN}
    IN  List([k \in DOMAIN col |->
            IF col[k] # NaN THEN col[k]
            ELSE LET before == {j \in valid : j < k}
                     after  == {j \in valid : j > k}
                 IN  IF before = {} THEN NaN
                     ELSE IF after = {} THEN col[SetMax(before)]
                     ELSE LET p == SetMax(before)
                              q == SetMin(after)
                          IN  col[p] + ((col[q] - col[p]) * (k - p)) \div (q - p)])

\* Series.bfill(): NaN takes the next valid value
Bfill(col) ==
    LET valid == {j \in DOMAIN col : col[j] # NaN}
    IN  List([k \in DOMAIN col |->
            IF col[k] # NaN THEN col[k]
            ELSE LET after == {j \in valid : j > k}
                 IN  IF after = {} THEN NaN ELSE col[SetMin(after)]])

\* Series.ffill(): NaN takes the previous valid value
Ffill(col) ==
    LET valid == {j \in DOMAIN col : col[j] # NaN}
    IN  List([k \in DOMAIN col |->
            IF col[k] # NaN THEN col[k]
            ELSE LET before == {j \in valid : j < k}
                 IN  IF before = {} THEN NaN ELSE col[SetMax(before)]])

\* .interpolate(method='linear').bfill().ffill()
FillMissing(col) == Ffill(Bfill(Interpolate(col)))

\* Series.rolling(window=w).max() / .min() / .sum(), NaN until w values are present
\* and whenever a value of the window is NaN
WindowOf(col, k, w) == {col[j] : j \in (k - w + 1)..k}
RollingDefined(col, k, w) == k >= w /\ NaN \notin WindowOf(col, k, w)
\* a rolling maximum over the w values that precede row k
RollingMaxPrior(col, k, w) ==
    IF k > w /\ RollingDefined(col, k - 1, w) THEN SetMax(WindowOf(col, k - 1, w)) ELSE NaN
RollingMax(col, k, w) == IF RollingDefined(col, k, w) THEN SetMax(WindowOf(col, k, w)) ELSE NaN
RollingMin(col, k, w) == IF RollingDefined(col, k, w) THEN SetMin(WindowOf(col, k, w)) ELSE NaN
RECURSIVE SumRange(_, _, _)
SumRange(col, lo, hi) == IF lo > hi THEN 0 ELSE col[lo] + SumRange(col, lo + 1, hi)
RollingSum(col, k, w) == IF RollingDefined(col, k, w) THEN SumRange(col, k - w + 1, k) ELSE NaN


---------------------------------------------------------------------------
(* get_signal: conversion of the klines to a frame and cleaning *)

\* a kline record as the exchange delivers it: 12 fields, OHLCV in fields 2..6
Kline(ts, o, h, l, c, v) == <<ts, o, h, l, c, v, ts, 0, 0, 0, 0, 0>>

\* pd.DataFrame(klines): as many columns as the longest record has fields
NumColumns(k) == IF Len(k) = 0 THEN 0 ELSE SetMax({Len(k[i]) : i \in 1..Len(k)})

\* a field a shorter record does not have is None
FieldOf(rec, j) == IF j <= Len(rec) THEN rec[j] ELSE NaN

\* pd.to_numeric(errors='coerce')
ToNumeric(x) == IF x = Junk THEN NaN ELSE x

\* the frame with its 12 named columns; only the columns the pipeline reads are kept
DataFrame(k) ==
    List([i \in 1..Len(k) |->
        [timestamp |-> FieldOf(k[i], 1), open |-> FieldOf(k[i], 2), high |-> FieldOf(k[i], 3),
         low |-> FieldOf(k[i], 4), close |-> FieldOf(k[i], 5), volume |-> FieldOf(k[i], 6)]])

numeric_columns == <<"open", "high", "low", "close", "volume">>
price_cols == <<"open", "high", "low", "close">>

\* get_signal's cleaning of one column: coerce, and fill when a value is missing
CoerceColumn(rows, name) ==
    LET num == List([k \in 1..Len(rows) |-> ToNumeric(rows[k][name])])
    IN  SetColumn(rows, name, IF AnyNaN(num) THEN FillMissing(num) ELSE num)

RECURSIVE CoerceColumns(_, _)
CoerceColumns(rows, j) ==
    IF j = 0 THEN rows ELSE CoerceColumn(CoerceColumns(rows, j - 1), numeric_columns[j])

NeedsCleaning(rows, name) == \E k \in 1..Len(rows) : ToNumeric(rows[k][name]) = NaN

\* "Final validation after cleaning"
StillMissing(rows) ==
    \E j \in 1..Len(numeric_columns) : AnyNaN(Column(rows, numeric_columns[j]))

---------------------------------------------------------------------------
(* add_indicators: cleaning, levels, zones *)

\* zone_width = 0.006, in thousandths
ZoneWidth == 6

MinRequired(s) ==
    Max2(Max2(s.lookback_period, s.volatility_window), s.momentum_window) + 5

\* "Ensure positive prices": a column holding a value <= 0 has its zeros replaced
\* by NaN and is filled; replace(0, np.nan) leaves a negative value as it is
RepairColumn(rows, name) ==
    LET col == Column(rows, name)
    IN  IF \E k \in DOMAIN col : col[k] # NaN /\ col[k] <= 0
        THEN SetColumn(rows, name, FillMissing(List([k \in DOMAIN col |-> IF col[k] = 0 THEN NaN ELSE col[k]])))
        ELSE rows

RECURSIVE RepairColumns(_, _)
RepairColumns(rows, j) ==
    IF j = 0 THEN rows ELSE RepairColumn(RepairColumns(rows, j - 1), price_cols[j])

CleanPrices(rows) ==
    LET close == Column(rows, "close")
        first == IF AnyNaN(close) THEN SetColumn(rows, "close", FillMissing(close)) ELSE rows
    IN  RepairColumns(first, Len(price_cols))

\* a band that leaves out the level itself: level * (1 - zone_width) <= x < level
InBandBelow(x, level) ==
    /\ x # NaN /\ level # NaN
    /\ 1000 * x >= (1000 - ZoneWidth) * level
    /\ x < level

\* level * (1 - zone_width) <= x <= level * (1 + zone_width)
InBand(x, level) ==
    /\ x # NaN /\ level # NaN
    /\ 1000 * x >= (1000 - ZoneWidth) * level
    /\ 1000 * x <= (1000 + ZoneWidth) * level
AtOrAboveLower(x, level) == x # NaN /\ 1000 * x >= (1000 - ZoneWidth) * level
BelowLower(x, level) == x # NaN /\ 1000 * x < (1000 - ZoneWidth) * level
AtOrBelowUpper(x, level) == x # NaN /\ 1000 * x <= (1000 + ZoneWidth) * level
AboveUpper(x, level) == x # NaN /\ 1000 * x > (1000 + ZoneWidth) * level

\* the lookback_period rows before row k (the trailing window of the strength loop)
Recent(k, L) == (k - L)..(k - 1)

ResistanceTouches(rows, k, L, level) ==
    Cardinality({j \in Recent(k, L) : InBand(rows[j].high, level)})
ResistanceTimeInZone(rows, k, L, level) ==
    Cardinality({j \in Recent(k, L) : InBand(rows[j].close, level)})
ResistanceRejections(rows, k, L, level) ==
    Cardinality({j \in Recent(k, L) : AtOrAboveLower(rows[j].high, level) /\ BelowLower(rows[j].close, level)})
SupportTouches(rows, k, L, level) ==
    Cardinality({j \in Recent(k, L) : InBand(rows[j].low, level)})
SupportTimeInZone(rows, k, L, level) ==
    Cardinality({j \in Recent(k, L) : InBand(rows[j].close, level)})
SupportRejections(rows, k, L, level) ==
    Cardinality({j \in Recent(k, L) : AtOrBelowUpper(rows[j].low, level) /\ AboveUpper(rows[j].close, level)})

\* a strength that counts a rejection once
ZoneStrengthSingleRejection(touches, time_in_zone, rejections) ==
    touches + time_in_zone + rejections

\* strength = touches + time_in_zone + rejections * 2
ZoneStrength(touches, time_in_zone, rejections) == touches + time_in_zone + (rejections * 2)

\* the strength loop runs for rows lookback_period .. len-1 and only for a level > 0
Scored(k, L, level) == k >= L + 1 /\ level # NaN /\ level > 0

\* the indicator columns of row k (k counts from 1)
IndicatorRow(rows, k, L, mw) ==
    LET r == rows[k]
        resistance == RollingMax(Column(rows, "high"), k, L)
        support == RollingMin(Column(rows, "low"), k, L)
        volsum == RollingSum(Column(rows, "volume"), k, L)
        rt == IF Scored(k, L, resistance) THEN ResistanceTouches(rows, k, L, resistance) ELSE 0
        st == IF Scored(k, L, support) THEN SupportTouches(rows, k, L, support) ELSE 0
    IN  [price_momentum |->
            IF k <= mw THEN FracNaN
            ELSE IF r.close = NaN \/ rows[k - mw].close = NaN THEN FracNaN
            ELSE Frac(r.close - rows[k - mw].close, rows[k - mw].close),
         resistance |-> resistance,
         support |-> support,
         dist_from_resistance |->
            IF r.close = 0 THEN Frac(0, 1)
            ELSE IF r.close = NaN \/ resistance = NaN THEN FracNaN
            ELSE Frac(resistance - r.close, r.close),
         dist_from_support |->
            IF r.close = 0 THEN Frac(0, 1)
            ELSE IF r.close = NaN \/ support = NaN THEN FracNaN
            ELSE Frac(r.close - support, r.close),
         volume_ratio |->
            IF volsum = NaN \/ r.volume = NaN THEN FracNaN
            ELSE IF volsum = 0 THEN Frac(1, 1)
            ELSE Frac(r.volume * L, volsum),
         resistance_touches |-> rt,
         support_touches |-> st,
         resistance_zone_strength |->
            IF Scored(k, L, resistance)
            THEN ZoneStrength(rt, ResistanceTimeInZone(rows, k, L, resistance),
                              ResistanceRejections(rows, k, L, resistance))
            ELSE 0,
         support_zone_strength |->
            IF Scored(k, L, support)
            THEN ZoneStrength(st, SupportTimeInZone(rows, k, L, support),
                              SupportRejections(rows, k, L, support))
            ELSE 0,
         in_resistance_zone |-> InBand(r.close, resistance),
         in_support_zone |-> InBand(r.close, support)]

Indicators(rows, L, mw) == List([k \in 1..Len(rows) |-> rows[k] @@ IndicatorRow(rows, k, L, mw)])

---------------------------------------------------------------------------
(* _add_price_action_patterns *)

\* every pattern column as it is initialised
NoPatterns ==
    [pin_bar_bullish |-> FALSE, pin_bar_bearish |-> FALSE,
     engulfing_bullish |-> FALSE, engulfing_bearish |-> FALSE,
     morning_star |-> FALSE, evening_star |-> FALSE,
     tweezer_bottom |-> FALSE, tweezer_top |-> FALSE,
     three_white_soldiers |-> FALSE, three_black_crows |-> FALSE,
     marubozu_bullish |-> FALSE, marubozu_bearish |-> FALSE,
     doji |-> FALSE, gravestone_doji |-> FALSE, dragonfly_doji |-> FALSE,
     spinning_top |-> FALSE, spinning_bottom |-> FALSE,
     inside_bar |-> FALSE, outside_bar |-> FALSE,
     bullish_flag |-> FALSE, bearish_flag |-> FALSE,
     bullish_pennant |-> FALSE, bearish_pennant |-> FALSE,
     bullish_breakout |-> FALSE, bearish_breakout |-> FALSE,
     bullish_rejection |-> FALSE, bearish_rejection |-> FALSE]

\* "Skip if data is invalid": an OHLC value of the candle is NaN or <= 0
InvalidCandle(r) ==
    \E v \in {r.open, r.high, r.low, r.close} : v = NaN \/ v <= 0

Body(r) == Abs(r.close - r.open)
Range(r) == r.high - r.low
UpperShadow(r) == r.high - Max2(r.open, r.close)
LowerShadow(r) == Min2(r.open, r.close) - r.low
Green(r) == r.close > r.open
Red(r) == r.close < r.open

\* a hammer whose body only has to exceed 5% of the range
PinBarBullishThin(c) ==
    /\ 100 * Body(c) > 5 * Range(c)
    /\ 10 * LowerShadow(c) > 25 * Body(c)
    /\ 10 * UpperShadow(c) < 4 * Body(c)

\* 1. pin bars
PinBarBullish(c) ==
    /\ 100 * Body(c) > 5 * Range(c)
    /\ 10 * LowerShadow(c) > 25 * Body(c)
    /\ 10 * UpperShadow(c) < 4 * Body(c)
    /\ 10 * Body(c) > Range(c)
PinBarBearish(c) ==
    /\ 100 * Body(c) > 5 * Range(c)
    /\ 10 * UpperShadow(c) > 25 * Body(c)
    /\ 10 * LowerShadow(c) < 4 * Body(c)
    /\ 10 * Body(c) > Range(c)

\* 2. marubozu
Marubozu(c) == 10 * Body(c) > 9 * Range(c)

\* 3. doji family
SmallBody(c) == 10 * Body(c) < Range(c) /\ Range(c) > 0
GravestoneDoji(c) ==
    SmallBody(c) /\ 10 * UpperShadow(c) > 7 * Range(c) /\ 10 * LowerShadow(c) < Range(c)
DragonflyDoji(c) ==
    /\ SmallBody(c) /\ ~GravestoneDoji(c)
    /\ 10 * LowerShadow(c) > 7 * Range(c) /\ 10 * UpperShadow(c) < Range(c)
PlainDoji(c) == SmallBody(c) /\ ~GravestoneDoji(c) /\ ~DragonflyDoji(c)

\* 4. spinning top / bottom
Spinning(c) ==
    /\ 10 * Body(c) > Range(c) /\ 10 * Body(c) < 3 * Range(c)
    /\ UpperShadow(c) > Body(c) /\ LowerShadow(c) > Body(c)

\* 5. engulfing
EngulfingBullish(c, p) ==
    /\ Body(p) > 0 /\ Body(c) > 0
    /\ Red(p) /\ Green(c) /\ c.close > p.open /\ c.open < p.close
    /\ 10 * Body(c) > 11 * Body(p)
EngulfingBearish(c, p) ==
    /\ Body(p) > 0 /\ Body(c) > 0
    /\ ~EngulfingBullish(c, p)
    /\ Green(p) /\ Red(c) /\ c.close < p.open /\ c.open > p.close
    /\ 10 * Body(c) > 11 * Body(p)

\* 6. tweezers
TweezerTop(c, p) ==
    /\ 1000 * Abs(c.high - p.high) < 2 * (c.high + p.high)
    /\ Red(c) /\ Red(p)
    /\ 1000 * c.high >= 1005 * Max2(c.open, c.close)
TweezerBottom(c, p) ==
    /\ 1000 * Abs(c.low - p.low) < 2 * (c.low + p.low)
    /\ Green(c) /\ Green(p)
    /\ 1000 * c.low <= 995 * Min2(c.open, c.close)

\* 7., 8. stars
MorningStar(c, p, p2) ==
    /\ Red(p2) /\ 2 * Body(p) < Body(p2)
    /\ Green(c) /\ 2 * c.close > p2.open + p2.close
EveningStar(c, p, p2) ==
    /\ Green(p2) /\ 2 * Body(p) < Body(p2)
    /\ Red(c) /\ 2 * c.close < p2.open + p2.close

\* 9., 10. soldiers and crows
ThreeWhiteSoldiers(c, p, p2) ==
    /\ Green(p2) /\ Green(p) /\ Green(c)
    /\ c.close > p.close /\ p.close > p2.close
    /\ 1000 * c.open > 995 * p.open /\ 1000 * p.open > 995 * p2.open
    /\ 10 * Body(c) > 6 * Range(c) /\ 10 * Body(p) > 6 * Range(p)
ThreeBlackCrows(c, p, p2) ==
    /\ Red(p2) /\ Red(p) /\ Red(c)
    /\ c.close < p.close /\ p.close < p2.close
    /\ 1000 * c.open < 1005 * p.open /\ 1000 * p.open < 1005 * p2.open
    /\ 10 * Body(c) > 6 * Range(c) /\ 10 * Body(p) > 6 * Range(p)

\* 11., 12. inside and outside bar
InsideBar(c, p) == c.high < p.high /\ c.low > p.low
OutsideBar(c, p) == c.high > p.high /\ c.low < p.low /\ Body(c) > Body(p)

\* the move (to - from) / from that precedes a flag or a pennant
Move(to, from) == Frac(to - from, from)
BigMove(m) == FracGt(m, 2, 100) \/ FracLt(m, -2, 100)

\* 13. flags: rows i-4..i, trend start at row i-7 (row 0 when i < 7)
FlagRows(k) == (k - 4)..k
FlagStart(rows, k) == IF k - 1 >= 7 THEN rows[k - 7] ELSE rows[1]
FlagHigh(rows, k) == SetMax({rows[j].high : j \in FlagRows(k)})
FlagLow(rows, k) == SetMin({rows[j].low : j \in FlagRows(k)})
\* flag_range < abs(pre_flag_move * prev['close']) * 0.5
FlagTight(rows, k) ==
    LET from == FlagStart(rows, k).close
        pc == rows[k - 1].close
    IN  2 * (FlagHigh(rows, k) - FlagLow(rows, k)) * Abs(from) < Abs(pc - from) * Abs(pc)
FlagSetup(rows, k) ==
    /\ k - 1 >= 5
    /\ BigMove(Move(rows[k - 1].close, FlagStart(rows, k).close))
    /\ FlagTight(rows, k)
BullishFlag(rows, k) ==
    /\ FlagSetup(rows, k)
    /\ FracGt(Move(rows[k - 1].close, FlagStart(rows, k).close), 0, 1)
    /\ Green(rows[k]) /\ rows[k].close > FlagHigh(rows, k)
BearishFlag(rows, k) ==
    /\ FlagSetup(rows, k) /\ ~BullishFlag(rows, k)
    /\ FracLt(Move(rows[k - 1].close, FlagStart(rows, k).close), 0, 1)
    /\ Red(rows[k]) /\ rows[k].close < FlagLow(rows, k)

\* 14. pennants: rows i-5..i, trend start at row i-9 (row 0 when i < 9)
PennantRows(k) == (k - 5)..k
PennantStart(rows, k) == IF k - 1 >= 9 THEN rows[k - 9] ELSE rows[1]
PennantSetup(rows, k) ==
    /\ k - 1 >= 6
    /\ 10 * Range(rows[k - 1]) < 7 * Range(rows[k - 5])
    /\ BigMove(Move(rows[k - 5].close, PennantStart(rows, k).close))
BullishPennant(rows, k) ==
    /\ PennantSetup(rows, k)
    /\ FracGt(Move(rows[k - 5].close, PennantStart(rows, k).close), 0, 1)
    /\ Green(rows[k])
    /\ rows[k].close > SetMax({rows[j].high : j \in PennantRows(k)})
BearishPennant(rows, k) ==
    /\ PennantSetup(rows, k) /\ ~BullishPennant(rows, k)
    /\ FracLt(Move(rows[k - 5].close, PennantStart(rows, k).close), 0, 1)
    /\ Red(rows[k])
    /\ rows[k].close < SetMin({rows[j].low : j \in PennantRows(k)})

\* 15. zone rejections, 16. breakout confirmations: the geometric fallbacks
StrongBounce(c, p) == c.low <= p.low /\ Green(c) /\ 10 * Body(c) > 6 * Range(c)
StrongRejection(c, p) == c.high >= p.high /\ Red(c) /\ 10 * Body(c) > 6 * Range(c)
StrongBreakout(c) ==
    /\ 1000 * c.close > 1003 * c.resistance /\ Green(c)
    /\ 10 * Body(c) > 7 * Range(c) /\ FracGt(c.volume_ratio, 13, 10)
StrongBreakdown(c) ==
    /\ 1000 * c.close < 997 * c.support /\ Red(c)
    /\ 10 * Body(c) > 7 * Range(c) /\ FracGt(c.volume_ratio, 13, 10)

\* the pattern columns of row k (k counts from 1; the loop starts at row 3, k = 4)
PatternRow(rows, k) ==
    IF k < 4 THEN NoPatterns
    ELSE
    LET c == rows[k]
        p == rows[k - 1]
        p2 == rows[k - 2]
        p3 == rows[k - 3]
    IN  IF InvalidCandle(c) \/ InvalidCandle(p) \/ InvalidCandle(p2) \/ InvalidCandle(p3)
        THEN NoPatterns
        ELSE IF Range(c) = 0 \/ Range(p) = 0 \/ Range(p2) = 0 THEN NoPatterns
        ELSE
        LET f == [NoPatterns EXCEPT
                    !.pin_bar_bullish = PinBarBullish(c),
                    !.pin_bar_bearish = PinBarBearish(c),
                    !.marubozu_bullish = Marubozu(c) /\ Green(c),
                    !.marubozu_bearish = Marubozu(c) /\ ~Green(c),
                    !.gravestone_doji = GravestoneDoji(c),
                    !.dragonfly_doji = DragonflyDoji(c),
                    !.doji = PlainDoji(c),
                    !.spinning_top = Spinning(c) /\ Green(c),
                    !.spinning_bottom = Spinning(c) /\ ~Green(c),
                    !.engulfing_bullish = EngulfingBullish(c, p),
                    !.engulfing_bearish = EngulfingBearish(c, p),
                    !.tweezer_top = TweezerTop(c, p),
                    !.tweezer_bottom = TweezerBottom(c, p),
                    !.morning_star = MorningStar(c, p, p2),
                    !.evening_star = EveningStar(c, p, p2),
                    !.three_white_soldiers = ThreeWhiteSoldiers(c, p, p2),
                    !.three_black_crows = ThreeBlackCrows(c, p, p2),
                    !.inside_bar = InsideBar(c, p),
                    !.outside_bar = OutsideBar(c, p),
                    !.bullish_flag = BullishFlag(rows, k),
                    !.bearish_flag = BearishFlag(rows, k),
                    !.bullish_pennant = BullishPennant(rows, k),
                    !.bearish_pennant = BearishPennant(rows, k)]
        IN  [f EXCEPT
                !.bullish_rejection =
                    /\ c.in_support_zone
                    /\ \/ f.pin_bar_bullish \/ f.engulfing_bullish \/ f.tweezer_bottom
                       \/ f.morning_star \/ f.dragonfly_doji \/ StrongBounce(c, p),
                !.bearish_rejection =
                    /\ c.in_resistance_zone
                    /\ \/ f.pin_bar_bearish \/ f.engulfing_bearish \/ f.tweezer_top
                       \/ f.evening_star \/ f.gravestone_doji \/ StrongRejection(c, p),
                !.bullish_breakout =
                    /\ Gt(c.resistance, 0)
                    /\ \/ f.marubozu_bullish \/ f.engulfing_bullish \/ f.three_white_soldiers
                       \/ f.bullish_flag \/ f.bullish_pennant \/ StrongBreakout(c),
                !.bearish_breakout =
                    /\ Gt(c.support, 0)
                    /\ \/ f.marubozu_bearish \/ f.engulfing_bearish \/ f.three_black_crows
                       \/ f.bearish_flag \/ f.bearish_pennant \/ StrongBreakdown(c)]

\* the loop over rows 3..len-1; an exception raised in iteration `stop` (a row number
\* of the code, len when none is raised) leaves the later rows as initialised
Patterns(rows, stop) ==
    List([k \in 1..Len(rows) |->
        rows[k] @@ (IF k - 1 < stop THEN PatternRow(rows, k) ELSE NoPatterns)])

---------------------------------------------------------------------------
(* _generate_price_action_signals *)

\* min_zone_strength = 3 and min_signal_strength = 3, the locals of the scoring loop
min_zone_strength == 3
min_signal_strength == 3

\* the signal columns initialised with hold_signal left False
NoSignalUnset ==
    [buy_signal |-> FALSE, sell_signal |-> FALSE, hold_signal |-> FALSE,
     signal_strength |-> 0, signal_reason |-> <<>>,
     buy_score |-> 0, sell_score |-> 0, scored |-> FALSE]

\* the signal columns as they are initialised; buy_score and sell_score are the
\* loop's local scores of the row, kept beside the columns (0 where the row is
\* not scored), and scored tells whether the loop reached the decision for the row
NoSignal ==
    [buy_signal |-> FALSE, sell_signal |-> FALSE, hold_signal |-> TRUE,
     signal_strength |-> 0, signal_reason |-> <<>>,
     buy_score |-> 0, sell_score |-> 0, scored |-> FALSE]

\* one reason string: its fixed text and the number formatted into it
Reason(text, arg) == <<text, arg>>
Percent(f) == IF f.den = 0 THEN 0 ELSE (f.num * 10000) \div f.den

\* "Skip if critical data is missing": close, resistance or support is NaN or negative
SkipRow(c) ==
    \E v \in {c.close, c.resistance, c.support} : v = NaN \/ (v <= 0 /\ v # 0)

\* the last detected entry of a priority list, or <<>>
RECURSIVE LastDetected(_, _)
LastDetected(list, j) ==
    IF j > Len(list) THEN <<>>
    ELSE IF LastDetected(list, j + 1) # <<>> THEN LastDetected(list, j + 1)
    ELSE IF list[j][2] THEN list[j]
    ELSE <<>>

\* a priority list of <<name, detected, score>>: the first detected entry, or <<>>
RECURSIVE FirstDetected(_, _)
FirstDetected(list, j) ==
    IF j > Len(list) THEN <<>>
    ELSE IF list[j][2] THEN list[j]
    ELSE FirstDetected(list, j + 1)

\* every detected entry of a list, in order
RECURSIVE AllDetected(_, _)
AllDetected(list, j) ==
    IF j > Len(list) THEN <<>>
    ELSE (IF list[j][2] THEN <<list[j]>> ELSE <<>>) \o AllDetected(list, j + 1)

RECURSIVE ScoreOf(_)
ScoreOf(hits) == IF hits = <<>> THEN 0 ELSE Head(hits)[3] + ScoreOf(Tail(hits))

\* the hits of a group as <<reason, detected, score>> entries
Hit(text, arg, score) == <<Reason(text, arg), TRUE, score>>
\* the reasons of the hits, latest first
ReasonsReversed(hits) == List([j \in 1..Len(hits) |-> hits[Len(hits) + 1 - j][1]])
Reasons(hits) == List([j \in 1..Len(hits) |-> hits[j][1]])

\* a qualification that leaves the zone strength out
InSupportZoneOnly(c) == c.in_support_zone

InStrongSupportZone(c) == c.in_support_zone /\ c.support_zone_strength >= min_zone_strength
InStrongResistanceZone(c) == c.in_resistance_zone /\ c.resistance_zone_strength >= min_zone_strength

\* a support zone rejection that tries the named patterns before the composite flag
SupportRejectionHitsNamedFirst(c) ==
    IF ~InStrongSupportZone(c) THEN <<>>
    ELSE
    LET first == FirstDetected(<<
            <<"Bullish Pin Bar (Hammer) at Support Zone", c.pin_bar_bullish, 4>>,
            <<"Bullish Engulfing at Support Zone", c.engulfing_bullish, 4>>,
            <<"Morning Star at Support Zone", c.morning_star, 5>>,
            <<"Tweezer Bottom at Support Zone", c.tweezer_bottom, 4>>,
            <<"Dragonfly Doji at Support Zone", c.dragonfly_doji, 3>>,
            <<"Strong Bullish Rejection at Support Zone", c.bullish_rejection, 5>>,
            <<"Three White Soldiers at Support Zone", c.three_white_soldiers, 5>>,
            <<"Bullish Marubozu at Support Zone", c.marubozu_bullish, 4>> >>, 1)
    IN  (IF first = <<>> THEN <<>> ELSE <<Hit(first[1], c.support_zone_strength, first[3])>>)
        \o (IF c.spinning_top
            THEN <<Hit("Bullish Spinning Top at Support", c.support_zone_strength, 2)>>
            ELSE <<>>)

\* BUY condition 1: support zone rejection
SupportRejectionHits(c) ==
    IF ~InStrongSupportZone(c) THEN <<>>
    ELSE
    LET first == FirstDetected(<<
            <<"Strong Bullish Rejection at Support Zone", c.bullish_rejection, 5>>,
            <<"Bullish Pin Bar (Hammer) at Support Zone", c.pin_bar_bullish, 4>>,
            <<"Bullish Engulfing at Support Zone", c.engulfing_bullish, 4>>,
            <<"Morning Star at Support Zone", c.morning_star, 5>>,
            <<"Tweezer Bottom at Support Zone", c.tweezer_bottom, 4>>,
            <<"Dragonfly Doji at Support Zone", c.dragonfly_doji, 3>>,
            <<"Three White Soldiers at Support Zone", c.three_white_soldiers, 5>>,
            <<"Bullish Marubozu at Support Zone", c.marubozu_bullish, 4>> >>, 1)
    IN  (IF first = <<>> THEN <<>> ELSE <<Hit(first[1], c.support_zone_strength, first[3])>>)
        \o (IF c.spinning_top
            THEN <<Hit("Bullish Spinning Top at Support", c.support_zone_strength, 2)>>
            ELSE <<>>)

\* BUY condition 2: resistance breakout
ResistanceBreakoutHits(c) ==
    IF ~Gt(c.resistance, 0) THEN <<>>
    ELSE
    LET first == FirstDetected(<<
            <<"Strong Resistance Breakout", c.bullish_breakout, 5>>,
            <<"Bullish Flag Breakout", c.bullish_flag, 5>>,
            <<"Bullish Pennant Breakout", c.bullish_pennant, 5>>,
            <<"Bullish Marubozu Breakout", c.marubozu_bullish, 4>>,
            <<"Three White Soldiers Breakout", c.three_white_soldiers, 5>> >>, 1)
    IN  (IF first = <<>> THEN <<>> ELSE <<Hit(first[1], c.resistance, first[3])>>)
        \o (IF /\ 1000 * c.close > 1003 * c.resistance
               /\ Gt(c.close, c.open)
               /\ FracGt(c.volume_ratio, 15, 10)
            THEN <<Hit("Volume-Confirmed Resistance Break", c.resistance, 4)>>
            ELSE <<>>)

\* BUY condition 3: continuation patterns, every match counted
BuyContinuationHits(c, p) ==
    LET all == AllDetected(<<
            <<"Inside Bar Breakout", c.inside_bar /\ p.bullish_breakout, 3>>,
            <<"Outside Bar Bullish", c.outside_bar /\ Gt(c.close, c.open), 3>> >>, 1)
    IN  List([j \in 1..Len(all) |-> Hit(all[j][1], 0, all[j][3])])

\* BUY condition 3: momentum + zone confirmation
BuyMomentumHits(c, p) ==
    IF ~FracGt(c.price_momentum, 12, 1000) THEN <<>>
    ELSE IF FracLt(c.dist_from_support, 35, 1000)
    THEN <<Hit("Strong Momentum near Support", Percent(c.price_momentum), 2)>>
    ELSE IF p.in_support_zone /\ ~c.in_support_zone /\ Gt(c.close, p.close)
    THEN <<Hit("Momentum Continuation after Support Bounce", Percent(c.price_momentum), 3)>>
    ELSE <<>>

\* SELL condition 1: resistance zone rejection
ResistanceRejectionHits(c) ==
    IF ~InStrongResistanceZone(c) THEN <<>>
    ELSE
    LET first == FirstDetected(<<
            <<"Strong Bearish Rejection at Resistance Zone", c.bearish_rejection, 5>>,
            <<"Bearish Pin Bar (Shooting Star) at Resistance Zone", c.pin_bar_bearish, 4>>,
            <<"Bearish Engulfing at Resistance Zone", c.engulfing_bearish, 4>>,
            <<"Evening Star at Resistance Zone", c.evening_star, 5>>,
            <<"Tweezer Top at Resistance Zone", c.tweezer_top, 4>>,
            <<"Gravestone Doji at Resistance Zone", c.gravestone_doji, 3>>,
            <<"Three Black Crows at Resistance Zone", c.three_black_crows, 5>>,
            <<"Bearish Marubozu at Resistance Zone", c.marubozu_bearish, 4>> >>, 1)
    IN  (IF first = <<>> THEN <<>> ELSE <<Hit(first[1], c.resistance_zone_strength, first[3])>>)
        \o (IF c.spinning_bottom
            THEN <<Hit("Bearish Spinning Bottom at Resistance", c.resistance_zone_strength, 2)>>
            ELSE <<>>)

\* SELL condition 2: support breakdown
SupportBreakdownHits(c) ==
    IF ~Gt(c.support, 0) THEN <<>>
    ELSE
    LET first == FirstDetected(<<
            <<"Strong Support Breakdown", c.bearish_breakout, 5>>,
            <<"Bearish Flag Breakdown", c.bearish_flag, 5>>,
            <<"Bearish Pennant Breakdown", c.bearish_pennant, 5>>,
            <<"Bearish Marubozu Breakdown", c.marubozu_bearish, 4>>,
            <<"Three Black Crows Breakdown", c.three_black_crows, 5>> >>, 1)
    IN  (IF first = <<>> THEN <<>> ELSE <<Hit(first[1], c.support, first[3])>>)
        \o (IF /\ 1000 * c.close < 997 * c.support
               /\ Lt(c.close, c.open)
               /\ FracGt(c.volume_ratio, 15, 10)
            THEN <<Hit("Volume-Confirmed Support Break", c.support, 4)>>
            ELSE <<>>)

\* SELL condition 3: continuation patterns
SellContinuationHits(c, p) ==
    LET all == AllDetected(<<
            <<"Inside Bar Breakdown", c.inside_bar /\ p.bearish_breakout, 3>>,
            <<"Outside Bar Bearish", c.outside_bar /\ Lt(c.close, c.open), 3>> >>, 1)
    IN  List([j \in 1..Len(all) |-> Hit(all[j][1], 0, all[j][3])])

\* SELL condition 3: momentum + zone confirmation
SellMomentumHits(c, p) ==
    IF ~FracLt(c.price_momentum, -12, 1000) THEN <<>>
    ELSE IF FracLt(c.dist_from_resistance, 25, 1000)
    THEN <<Hit("Strong Negative Momentum near Resistance", Percent(c.price_momentum), 2)>>
    ELSE IF p.in_resistance_zone /\ ~c.in_resistance_zone /\ Lt(c.close, p.close)
    THEN <<Hit("Momentum Continuation after Resistance Rejection", Percent(c.price_momentum), 3)>>
    ELSE <<>>

BuyHits(c, p) ==
    SupportRejectionHits(c) \o ResistanceBreakoutHits(c)
        \o BuyContinuationHits(c, p) \o BuyMomentumHits(c, p)
SellHits(c, p) ==
    ResistanceRejectionHits(c) \o SupportBreakdownHits(c)
        \o SellContinuationHits(c, p) \o SellMomentumHits(c, p)

\* the decision taken without the margin of one between the scores
DecideNoMargin(buy_score, sell_score) ==
    IF buy_score >= min_signal_strength /\ buy_score > sell_score THEN "BUY"
    ELSE IF sell_score >= min_signal_strength /\ sell_score > buy_score THEN "SELL"
    ELSE "HOLD"

\* "FINAL SIGNAL DECISION"
Decide(buy_score, sell_score) ==
    IF buy_score >= min_signal_strength /\ buy_score > sell_score + 1 THEN "BUY"
    ELSE IF sell_score >= min_signal_strength /\ sell_score > buy_score + 1 THEN "SELL"
    ELSE "HOLD"

\* one iteration of the scoring loop: the signal columns of row k (k counts from 1)
SignalRow(rows, k) ==
    LET c == rows[k]
        p == IF k > 1 THEN rows[k - 1] ELSE c
    IN  IF SkipRow(c) THEN NoSignal
        ELSE
        LET buy == BuyHits(c, p)
            sell == SellHits(c, p)
            buy_score == ScoreOf(buy)
            sell_score == ScoreOf(sell)
            signal_reasons == Reasons(buy) \o Reasons(sell)
            decision == Decide(buy_score, sell_score)
        IN  [buy_signal |-> decision = "BUY",
             sell_signal |-> decision = "SELL",
             hold_signal |-> decision = "HOLD",
             signal_strength |->
                IF decision = "BUY" THEN buy_score
                ELSE IF decision = "SELL" THEN sell_score ELSE 0,
             signal_reason |-> IF decision = "HOLD" THEN <<>> ELSE signal_reasons,
             buy_score |-> buy_score, sell_score |-> sell_score, scored |-> TRUE]

\* the first row the scoring loop visits: max(lookback_period, momentum_window, 10)
ScoringStart(L, mw) == Max2(Max2(L, mw), 10)

\* the loop over rows ScoringStart..len-1; an exception raised in iteration `stop`
\* (a row number of the code, len when none is raised) leaves the later rows as
\* initialised
Signals(rows, L, mw, stop) ==
    List([k \in 1..Len(rows) |->
        rows[k] @@ (IF k - 1 >= ScoringStart(L, mw) /\ k - 1 < stop
                    THEN SignalRow(rows, k) ELSE NoSignal)])

---------------------------------------------------------------------------
(* Exceptions inside the pipeline *)

\* where an unexpected exception is raised during a get_signal call:
\*   convert     in get_signal, while the frame is built (before add_indicators)
\*   indicators  in add_indicators, before the pattern stage
\*   patterns    in iteration `row` of the loop of _add_price_action_patterns
\*   signals     in iteration `row` of the loop of _generate_price_action_signals,
\*               or, with row = -1, while the signal columns are initialised
\*   report      in get_signal, after add_indicators returned
Fault(stage, row) == [stage |-> stage, row |-> row]
NoFault == Fault("none", 0)

---------------------------------------------------------------------------
(* add_indicators *)

Record(level, text) == <<level, text>>

RepairWarnings(rows) ==
    (IF AnyNaN(Column(rows, "close"))
     THEN <<Record("warning", "Found NaN values in close prices, cleaning data")>> ELSE <<>>)
    \o (IF \E j \in 1..Len(price_cols) : \E k \in 1..Len(rows) :
              rows[k][price_cols[j]] # NaN /\ rows[k][price_cols[j]] <= 0
        THEN <<Record("warning", "Found zero or negative values, using interpolation")>>
        ELSE <<>>)

\* the frame add_indicators returns: its rows, the column groups it holds, what was
\* logged and which stages were entered
AddIndicators(rows, s, fault) ==
    LET L == s.lookback_period
        mw == s.momentum_window
        n == Len(rows)
    IN  IF n < MinRequired(s)
        THEN [rows |-> rows, columns |-> {"klines"},
              log |-> <<Record("warning", "Insufficient data")>>,
              trace |-> <<"add_indicators">>]
        ELSE IF fault.stage = "indicators"
        THEN [rows |-> rows, columns |-> {"klines"},
              log |-> <<Record("error", "Error adding price action calculations")>>,
              trace |-> <<"add_indicators">>]
        ELSE
        LET ind == Indicators(CleanPrices(rows), L, mw)
            pat == Patterns(ind, IF fault.stage = "patterns" THEN fault.row ELSE n)
            patlog == IF fault.stage = "patterns" /\ fault.row < n
                      THEN <<Record("error", "Error adding price action patterns")>> ELSE <<>>
            siginit == fault.stage = "signals" /\ fault.row < 0
            sigfault == fault.stage = "signals" /\ fault.row < n
        IN  [rows |-> IF siginit THEN pat
                      ELSE Signals(pat, L, mw, IF sigfault THEN fault.row ELSE n),
             columns |-> {"klines", "indicators", "patterns"}
                            \cup (IF siginit THEN {} ELSE {"signals"}),
             log |-> RepairWarnings(rows) \o patlog
                        \o (IF sigfault
                            THEN <<Record("error", "Error generating zone-based price action signals")>>
                            ELSE <<>>),
             trace |-> <<"add_indicators", "_add_price_action_patterns",
                         "_generate_price_action_signals">>]

---------------------------------------------------------------------------
(* TradingStrategy.__init__, PurePriceActionStrategy.__init__ *)

\* signal_history = deque(maxlen=100)
HistoryCap == 100

NoneValue == "None"

NoInstance == [constructed |-> FALSE]

\* the parameter checks written with < instead of <=
InitErrorNonNegative(lookback_period, breakout_threshold, volatility_window, momentum_window, sr_strength) ==
    IF lookback_period < 0 THEN "Lookback period must be positive"
    ELSE IF breakout_threshold < 0 THEN "Breakout threshold must be positive"
    ELSE IF volatility_window < 0 THEN "Volatility window must be positive"
    ELSE IF momentum_window < 0 THEN "Momentum window must be positive"
    ELSE IF sr_strength < 0 THEN "Support/resistance strength must be positive"
    ELSE ""

\* the first parameter check that fails, "" when all pass
InitError(lookback_period, breakout_threshold, volatility_window, momentum_window, sr_strength) ==
    IF lookback_period <= 0 THEN "Lookback period must be positive"
    ELSE IF breakout_threshold <= 0 THEN "Breakout threshold must be positive"
    ELSE IF volatility_window <= 0 THEN "Volatility window must be positive"
    ELSE IF momentum_window <= 0 THEN "Momentum window must be positive"
    ELSE IF sr_strength <= 0 THEN "Support/resistance strength must be positive"
    ELSE ""

NewInstance(lookback_period, breakout_threshold, volatility_window, momentum_window, sr_strength) ==
    [constructed |-> TRUE,
     name |-> "PurePriceActionStrategy",
     last_signal |-> NoneValue,
     signal_history |-> <<>>,
     lookback_period |-> lookback_period,
     breakout_threshold |-> breakout_threshold,
     volatility_window |-> volatility_window,
     momentum_window |-> momentum_window,
     sr_strength |-> sr_strength,
     warning_count |-> 0]

---------------------------------------------------------------------------
(* get_signal *)

NoFrame == [rows |-> <<>>, columns |-> {}]

\* a list append: nothing is ever dropped
DequeAppendUncapped(history, entry) == Append(history, entry)

\* deque.append on a deque with maxlen: a full deque drops its oldest entry
DequeAppend(history, entry) ==
    IF Len(history) >= HistoryCap THEN Append(Tail(history), entry)
    ELSE Append(history, entry)

CleaningWarnings(rows) ==
    LET hit == List([j \in 1..Len(numeric_columns) |-> NeedsCleaning(rows, numeric_columns[j])])
    IN  IF \E j \in DOMAIN hit : hit[j]
        THEN <<Record("warning", "Cleaning NaN values")>> ELSE <<>>

\* a label that is reported only when it differs from last_signal
LabelOfChanged(latest) ==
    IF latest.buy_signal /\ self.last_signal # "BUY" THEN "BUY"
    ELSE IF latest.sell_signal /\ self.last_signal # "SELL" THEN "SELL"
    ELSE "HOLD"

\* the label read off the last row
LabelOf(latest) ==
    IF latest.buy_signal THEN "BUY"
    ELSE IF latest.sell_signal THEN "SELL"
    ELSE "HOLD"

\* an entry that records the open of the last candle as the price
EntryAtOpen(latest, signal) ==
    [timestamp |-> latest.timestamp, signal |-> signal, price |-> latest.open,
     momentum |-> latest.price_momentum, signal_strength |-> latest.signal_strength,
     signal_reason |-> latest.signal_reason]

\* the history entry of a call
Entry(latest, signal) ==
    [timestamp |-> latest.timestamp, signal |-> signal, price |-> latest.close,
     momentum |-> latest.price_momentum, signal_strength |-> latest.signal_strength,
     signal_reason |-> latest.signal_reason]

\* an outer handler that logs and raises again
CaughtReraise(s, frame, lg, tr) ==
    [ret |-> NoneValue, raised |-> "Exception", self |-> s, frame |-> frame, trace |-> tr,
     log |-> lg \o <<Record("error", "Error in price action signal generation")>>]

\* an outer handler that also forgets the last label
CaughtForgetting(s, frame, lg, tr) ==
    [ret |-> NoneValue, raised |-> "", self |-> [s EXCEPT !.last_signal = NoneValue],
     frame |-> frame, trace |-> tr,
     log |-> lg \o <<Record("error", "Error in price action signal generation")>>]

\* what the outer handler does with an exception
Caught(s, frame, lg, tr) ==
    [ret |-> NoneValue, raised |-> "", self |-> s, frame |-> frame, trace |-> tr,
     log |-> lg \o <<Record("error", "Error in price action signal generation")>>]

\* the too short window handled without counting the call
InsufficientUncounted(s) ==
    [ret |-> NoneValue, raised |-> "", self |-> s, frame |-> NoFrame, trace |-> <<>>,
     log |-> IF s.warning_count % 10 = 0
             THEN <<Record("warning", "Insufficient data for price action signal")>>
             ELSE <<>>]

\* get_signal on an empty or too short window: the warning is written when the
\* counter of such calls is a multiple of 10, and the counter goes up by one
Insufficient(s) ==
    [ret |-> NoneValue, raised |-> "",
     self |-> [s EXCEPT !.warning_count = @ + 1],
     frame |-> NoFrame, trace |-> <<>>,
     log |-> IF s.warning_count % 10 = 0
             THEN <<Record("warning", "Insufficient data for price action signal")>>
             ELSE <<>>]

\* the tail of get_signal once add_indicators has returned the frame ai: the checks on
\* the frame, the label of the last row, the history entry and last_signal
Report(s, ai, lg, fault) ==
    IF Len(ai.rows) < 2
    THEN [ret |-> NoneValue, raised |-> "", self |-> s,
          frame |-> [rows |-> ai.rows, columns |-> ai.columns],
          trace |-> ai.trace, log |-> lg \o ai.log]
    ELSE IF "signals" \notin ai.columns
    THEN [ret |-> NoneValue, raised |-> "", self |-> s,
          frame |-> [rows |-> ai.rows, columns |-> ai.columns],
          trace |-> ai.trace,
          log |-> (lg \o ai.log) \o <<Record("warning", "Missing required column")>>]
    ELSE IF fault.stage = "report"
    THEN Caught(s, [rows |-> ai.rows, columns |-> ai.columns], lg \o ai.log, ai.trace)
    ELSE
    LET latest == ai.rows[Len(ai.rows)]
        store == /\ latest.timestamp # NaN /\ latest.close # NaN
                 /\ ~FracIsNaN(latest.price_momentum)
    IN  [ret |-> LabelOf(latest), raised |-> "",
         self |-> [s EXCEPT
                    !.signal_history =
                        IF store THEN DequeAppend(@, Entry(latest, LabelOf(latest))) ELSE @,
                    !.last_signal = LabelOf(latest)],
         frame |-> [rows |-> ai.rows, columns |-> ai.columns], trace |-> ai.trace,
         log |-> (lg \o ai.log) \o <<Record("info", LabelOf(latest))>>]

\* get_signal from the cleaned frame on: the final validation, add_indicators and the
\* report
Analyse(s, cleaned, lg, fault) ==
    IF StillMissing(cleaned)
    THEN [ret |-> NoneValue, raised |-> "", self |-> s,
          frame |-> [rows |-> cleaned, columns |-> {"klines"}], trace |-> <<>>,
          log |-> lg \o <<Record("error", "Failed to clean price data after interpolation")>>]
    ELSE Report(s, AddIndicators(cleaned, s, fault), lg, fault)

\* one call get_signal(k) on instance s with an exception raised at `fault`:
\* the value returned, the exception propagated, the instance afterwards, the frame
\* built, the records logged and the stages entered
GetSignalCall(s, k, fault) ==
    IF Len(k) = 0 \/ Len(k) < MinRequired(s) THEN Insufficient(s)
    ELSE IF fault.stage = "convert" THEN Caught(s, NoFrame, <<>>, <<>>)
    ELSE IF NumColumns(k) # 12
    THEN [ret |-> NoneValue, raised |-> "", self |-> s, frame |-> NoFrame, trace |-> <<>>,
          log |-> <<Record("error", "Invalid klines format: expected 12 columns")>>]
    ELSE Analyse(s, CoerceColumns(DataFrame(k), Len(numeric_columns)),
                 CleaningWarnings(DataFrame(k)), fault)

---------------------------------------------------------------------------
(* The caller: the windows it passes and how often it polls *)

\* bounds of the exploration
MaxCalls == 2          \* get_signal calls of a caller passing arbitrary windows
MaxFaultCalls == 2     \* get_signal calls of a caller whose calls hit internal exceptions
MaxPolls == 102        \* get_signal calls of a caller polling a steady source
TailLen == 2           \* candles drawn freely at the end of a generated window

\* candles <<open, high, low, close, volume>>
Flat        == <<10000, 10000, 10000, 10000, 10>>
SmallRed    == <<10040, 10045, 10005, 10010, 10>>
SmallGreen  == <<10010, 10045, 10005, 10040, 10>>
EngulfGreen == <<10000, 10055,  9990, 10045, 10>>
EngulfRed   == <<10050, 10060,  9995, 10005, 10>>
BigGreen    == <<10000, 10200, 10000, 10200, 30>>
BigRed      == <<10200, 10200, 10000, 10000, 30>>
Hammer      == <<10030, 10042,  9990, 10040, 10>>
ShootingStar == <<10010, 10050,  9998, 10000, 10>>
SpinGreen   == <<10020, 10060,  9990, 10030, 10>>
SpinRed     == <<10030, 10060,  9990, 10020, 10>>
StarShooter == <<10020, 10058, 10018, 10030, 10>>
Breakout    == <<10005, 10100, 10005, 10100, 60>>
Spike       == <<10000, 10010,  9990, 10100, 40>>   \* close above high: not a valid candle
ZeroCandle  == <<0, 0, 0, 0, 10>>
NegCandle   == <<-10000, 10045, 10005, -10010, 10>>
JunkCandle  == <<10010, 10045, 10005, Junk, Junk>>
DeepWick    == <<10040, 10045,  9900, 10010, 10>>
EngulfSmall == << 9998, 10025,  9990, 10020, 10>>
ThinHammer  == <<10092, 10102, 10002, 10100, 10>>    \* a hammer shape with a body of 8%
GapCandle   == <<10000, Junk, 10000, 10200, 30>>    \* a full green candle whose high is missing

Alphabet ==
    {Flat, SmallRed, SmallGreen, EngulfGreen, EngulfRed, BigGreen, BigRed,
     Hammer, ShootingStar, SpinGreen, SpinRed, StarShooter, Breakout, Spike}

\* the window of the candles cs, timestamps t0+1, t0+2, ...
Window(cs, t0) ==
    List([i \in 1..Len(cs) |-> Kline(t0 + i, cs[i][1], cs[i][2], cs[i][3], cs[i][4], cs[i][5])])

Repeat(c, n) == List([i \in 1..n |-> c])

Quiet == <<SmallRed, SmallGreen, SmallRed, SmallGreen, SmallRed,
           SmallGreen, SmallRed, SmallGreen, SmallRed, SmallGreen>>
Rally == <<SmallRed, SmallGreen, BigGreen, SmallGreen, SmallRed,
           BigRed, SmallRed, SmallGreen, SmallGreen, SmallRed>>

\* generated windows: a fixed past followed by TailLen free candles
Tails == [1..TailLen -> Alphabet]
RichWindows == {Window(past \o tail, 0) : past \in {Quiet, Rally}, tail \in Tails}

\* a bullish engulfing candle closing inside a support band of strength 5: of the three
\* candles before it two have their low in the band and all three close in it
ScenarioB ==
    Window(SubSeq(Quiet, 1, 8) \o <<DeepWick, SmallRed, ShootingStar, EngulfSmall>>, 0)

\* a record that lost its last field
Short(rec) == SubSeq(rec, 1, Len(rec) - 1)

\* a window whose last record has None as its timestamp
Untimed(k) == [k EXCEPT ![Len(k)][1] = NaN]

\* the windows of a caller passing arbitrary input
Catalogue ==
    {<<>>,
     Window(Repeat(SmallRed, 5), 0),
     List([i \in 1..11 |-> Short(Window(Quiet \o <<EngulfGreen>>, 0)[i])]),
     [Window(Quiet \o <<EngulfGreen>>, 0) EXCEPT ![3] = Short(@)],
     Window(Repeat(Flat, 11), 0),
     Window(Quiet \o <<EngulfGreen>>, 0),
     Window(Quiet \o <<BigRed>>, 0),
     Window(Quiet \o <<JunkCandle, SmallRed>>, 0),
     Window(Repeat(JunkCandle, 11), 0),
     Window(Quiet \o <<ZeroCandle, NegCandle, SmallGreen>>, 0),
     Window(Quiet \o <<GapCandle, SmallGreen>>, 0),
     Untimed(Window(Quiet \o <<EngulfGreen>>, 0)),
     Window(Quiet \o <<ThinHammer>>, 0),
     ScenarioB}

FaultCatalogue ==
    {Window(Quiet \o <<EngulfGreen>>, 0), Window(Quiet \o <<SmallRed, SmallGreen>>, 0)}

Faults(k) ==
    {NoFault, Fault("convert", 0), Fault("indicators", 0), Fault("report", 0),
     Fault("patterns", 3), Fault("patterns", Len(k) - 1),
     Fault("signals", -1), Fault("signals", Len(k) - 1)}

ParamChoices ==
    {<<3, 12, 2, 2, 1>>, <<2, 7, 3, 1, 2>>, <<1, 7, 2, 1, 1>>,
     <<0, 12, 2, 2, 1>>, <<3, 0, 2, 2, 1>>, <<3, 12, -1, 2, 1>>,
     <<3, 12, 2, 0, 1>>, <<3, 12, 2, 2, 0>>, <<-2, -1, 0, 0, 0>>}
DefaultParams == <<3, 12, 2, 2, 1>>

Feeds == {"mixed", "faulty", "steady", "starved", "rows"}

---------------------------------------------------------------------------
(* TradingStrategy: the calculations on plain price lists *)

\* a None among the prices of a list
NonePrice == -3000000

\* what a calculation gives back: the integer 0 of an early return, a float, the
\* square root np.std takes of a variance, or a TypeError raised by arithmetic on None
Zero == [kind |-> "int", value |-> 0]
Float(f) == [kind |-> "float", value |-> f]
Sqrt(f) == [kind |-> "sqrt", value |-> f]
TypeError == [kind |-> "raise", value |-> "TypeError"]

\* (curr - prev) / prev in floats, prev being neither 0 nor None
Return(curr, prev) ==
    IF curr = NaN \/ prev = NaN THEN FracNaN ELSE Frac(curr - prev, prev)

RECURSIVE SeqSum(_)
SeqSum(s) == IF Len(s) = 0 THEN 0 ELSE s[1] + SeqSum(Tail(s))
RECURSIVE SeqProduct(_)
SeqProduct(s) == IF Len(s) = 0 THEN 1 ELSE s[1] * SeqProduct(Tail(s))

\* np.std(returns): the square root of the population variance, NaN when a return is
\* NaN; the returns are brought to the common denominator d
Std(returns) ==
    IF \E i \in DOMAIN returns : FracIsNaN(returns[i]) THEN Float(FracNaN)
    ELSE LET n == Len(returns)
             d == SeqProduct(List([i \in 1..n |-> returns[i].den]))
             a == List([i \in 1..n |-> returns[i].num * (d \div returns[i].den)])
             squares == List([i \in 1..n |-> a[i] * a[i]])
         IN  Sqrt([num |-> n * SeqSum(squares) - SeqSum(a) * SeqSum(a),
                   den |-> n * n * d * d])

\* a momentum that guards the divisor against 0 only
calculate_price_momentum_zero_guard(prices, window) ==
    IF Len(prices) < window + 1 THEN Zero
    ELSE LET current_price == prices[Len(prices)]
             past_price == prices[Len(prices) - window]
         IN  IF past_price = 0 THEN Zero
             ELSE IF current_price = NonePrice \/ past_price = NonePrice THEN TypeError
             ELSE Float(Return(current_price, past_price))

calculate_price_momentum(prices, window) ==
    IF Len(prices) < window + 1 THEN Zero
    ELSE LET current_price == prices[Len(prices)]
             past_price == prices[Len(prices) - window]
         IN  IF past_price = 0 \/ past_price = NonePrice THEN Zero
             ELSE IF current_price = NonePrice THEN TypeError
             ELSE Float(Return(current_price, past_price))

calculate_volatility(prices, window) ==
    IF Len(prices) < window THEN Zero
    ELSE LET recent_prices == SubSeq(prices, Len(prices) - window + 1, Len(prices))
             kept == {i \in 2..Len(recent_prices) :
                         recent_prices[i - 1] # 0 /\ recent_prices[i - 1] # NonePrice}
             returns == List([j \in 1..Cardinality(kept) |->
                            LET i == CHOOSE i \in kept :
                                         Cardinality({h \in kept : h < i}) = j - 1
                            IN  Return(recent_prices[i], recent_prices[i - 1])])
         IN  IF \E i \in kept : recent_prices[i] = NonePrice THEN TypeError
             ELSE IF kept = {} THEN Zero
             ELSE Std(returns)

\* a local high that only has to be at least as high as its neighbours
IsResistanceWithTies(highs, i, strength) ==
    \A j \in (i - strength)..(i + strength) : j # i => ~(highs[j] > highs[i])

\* the inner loops of find_support_resistance for position i (counted from 1)
IsResistance(highs, i, strength) ==
    \A j \in (i - strength)..(i + strength) : j # i => ~(highs[j] >= highs[i])
IsSupport(lows, i, strength) ==
    \A j \in (i - strength)..(i + strength) : j # i => ~(lows[j] <= lows[i])

\* the outer loops, from position i on: the levels appended, in order
RECURSIVE ResistanceLevels(_, _, _)
ResistanceLevels(highs, i, strength) ==
    IF i > Len(highs) - strength THEN <<>>
    ELSE (IF IsResistance(highs, i, strength) THEN <<highs[i]>> ELSE <<>>)
         \o ResistanceLevels(highs, i + 1, strength)
RECURSIVE SupportLevels(_, _, _)
SupportLevels(lows, i, strength) ==
    IF i > Len(lows) - strength THEN <<>>
    ELSE (IF IsSupport(lows, i, strength) THEN <<lows[i]>> ELSE <<>>)
         \o SupportLevels(lows, i + 1, strength)

\* find_support_resistance(highs, lows, strength): the pair of lists returned
find_support_resistance(highs, lows, strength) ==
    IF Len(highs) < strength * 2 + 1 \/ Len(lows) < strength * 2 + 1
    THEN <<<<>>, <<>>>>
    ELSE <<ResistanceLevels(highs, strength + 1, strength),
           SupportLevels(lows, strength + 1, strength)>>

\* a candle of ohlc_data: a dict with the keys open, high, low, close; a key the dict
\* does not have is recorded as MissingKey, a key holding None as NonePrice
MissingKey == -4000000
RequiredKeys == {"open", "high", "low", "close"}
Ohlc(o, h, l, c) == [open |-> o, high |-> h, low |-> l, close |-> c]

\* "key not in candle or candle[key] is None or candle[key] <= 0" holds for no key
HasRequiredKeys(candle) ==
    \A key \in RequiredKeys :
        ~(candle[key] = MissingKey \/ candle[key] = NonePrice \/ candle[key] <= 0)

\* l <= min(o, c) <= max(o, c) <= h
ValidRelationship(candle) ==
    /\ candle.low <= Min2(candle.open, candle.close)
    /\ Max2(candle.open, candle.close) <= candle.high

\* body_size > 0 and lower_shadow > 2 * body_size and upper_shadow < body_size * 0.2
HammerShape(candle) ==
    LET body_size    == Abs(candle.close - candle.open)
        lower_shadow == Min2(candle.open, candle.close) - candle.low
        upper_shadow == candle.high - Max2(candle.open, candle.close)
    IN  body_size > 0 /\ lower_shadow > 2 * body_size /\ 5 * upper_shadow < body_size

\* the engulfing test tried before the hammer test
BullishPatternEngulfingFirst(current, prev) ==
    LET body_size      == Abs(current.close - current.open)
        prev_body_size == Abs(prev.close - prev.open)
    IN  IF /\ prev_body_size > 0 /\ prev.close < prev.open
           /\ current.close > prev.open /\ current.open < prev.close
           /\ body_size > prev_body_size
        THEN "BULLISH_ENGULFING"
        ELSE IF HammerShape(current) THEN "BULLISH_HAMMER"
        ELSE NoneValue

\* what the green-candle branch returns, NoneValue when it falls through
BullishPattern(current, prev) ==
    LET body_size      == Abs(current.close - current.open)
        prev_body_size == Abs(prev.close - prev.open)
    IN  IF HammerShape(current) THEN "BULLISH_HAMMER"
        ELSE IF /\ prev_body_size > 0 /\ prev.close < prev.open
                /\ current.close > prev.open /\ current.open < prev.close
                /\ body_size > prev_body_size
        THEN "BULLISH_ENGULFING"
        ELSE NoneValue

\* what the red-candle branch returns, NoneValue when it falls through
BearishPattern(current, prev) ==
    LET body_size      == Abs(current.close - current.open)
        prev_body_size == Abs(prev.close - prev.open)
    IN  IF HammerShape(current) THEN "BEARISH_HANGING_MAN"
        ELSE IF /\ prev_body_size > 0 /\ prev.close > prev.open
                /\ current.close < prev.open /\ current.open > prev.close
                /\ body_size > prev_body_size
        THEN "BEARISH_ENGULFING"
        ELSE NoneValue

\* detect_candlestick_patterns(ohlc_data): the label returned, or NoneValue
detect_candlestick_patterns(ohlc_data) ==
    IF Len(ohlc_data) < 2 THEN NoneValue
    ELSE LET current     == ohlc_data[Len(ohlc_data)]
             prev        == ohlc_data[Len(ohlc_data) - 1]
             body_size   == Abs(current.close - current.open)
             total_range == current.high - current.low
         IN  IF ~HasRequiredKeys(current) \/ ~HasRequiredKeys(prev) THEN NoneValue
             ELSE IF ~ValidRelationship(current) THEN NoneValue
             ELSE IF ~ValidRelationship(prev) THEN NoneValue
             ELSE IF total_range = 0 THEN NoneValue
             ELSE IF current.close > current.open
                     /\ BullishPattern(current, prev) # NoneValue
             THEN BullishPattern(current, prev)
             ELSE IF current.close < current.open
                     /\ BearishPattern(current, prev) # NoneValue
             THEN BearishPattern(current, prev)
             ELSE IF total_range > 0 /\ 10 * body_size < total_range THEN "DOJI"
             ELSE NoneValue

NoCalc == [fn |-> "", prices |-> <<>>, window |-> 0, value |-> [kind |-> "none"]]

---------------------------------------------------------------------------
(* get_strategy *)

\* the values modules.config gives when the environment sets none (the threshold in
\* thousandths)
PRICE_ACTION_LOOKBACK == 12
BREAKOUT_THRESHOLD == 8
VOLATILITY_WINDOW == 8
MOMENTUM_WINDOW == 6
SUPPORT_RESISTANCE_STRENGTH == 2

\* PurePriceActionStrategy(...) with the configured values
Configured ==
    NewInstance(PRICE_ACTION_LOOKBACK, BREAKOUT_THRESHOLD, VOLATILITY_WINDOW,
                MOMENTUM_WINDOW, SUPPORT_RESISTANCE_STRENGTH)

\* a factory that hands out the first object ever created once there is one
get_strategy_singleton(heap, strategy_name) ==
    IF Len(heap) > 0
    THEN [heap |-> heap, ret |-> 1, log |-> <<>>]
    ELSE [heap |-> <<Configured, Configured>>,
          ret |-> IF strategy_name = "SmartTrendCatcher" THEN 2 ELSE 1,
          log |-> <<Record("info", "initialized"), Record("info", "initialized")>>]

\* get_strategy(strategy_name) with the objects `heap` already created: each call builds
\* the dict `strategies` anew, two new instances, and returns one of them; the value
\* returned is the position of the instance among the objects
get_strategy(heap, strategy_name) ==
    LET strategies == [PurePriceActionStrategy |-> Len(heap) + 1,
                       SmartTrendCatcher |-> Len(heap) + 2]
        built == <<Record("info", "initialized"), Record("info", "initialized")>>
    IN  IF strategy_name \in DOMAIN strategies
        THEN [heap |-> heap \o <<Configured, Configured>>,
              ret |-> strategies[strategy_name], log |-> built]
        ELSE [heap |-> heap \o <<Configured, Configured>>,
              ret |-> strategies.PurePriceActionStrategy,
              log |-> built \o <<Record("warning", "Strategy not found. Defaulting to PurePriceActionStrategy.")>>]

NoPair == [heap |-> <<>>, a |-> 0, b |-> 0, alone |-> NoInstance, expected |-> NoneValue,
           target |-> "", calls |-> 0]

---------------------------------------------------------------------------
(* The state machine *)

Init ==
    /\ self = NoInstance
    /\ params = <<>>
    /\ klines = <<>>
    /\ df = NoFrame
    /\ result = NoneValue
    /\ raised = ""
    /\ log = <<>>
    /\ trace = <<>>
    /\ feed \in Feeds
    /\ polls = 0
    /\ appended = <<>>
    /\ op = ""
    /\ calc = NoCalc
    /\ pair = NoPair

\* PurePriceActionStrategy(lookback_period, breakout_threshold, ...): the instance
\* exists only when no check raised
Construct ==
    /\ ~self.constructed
    /\ \E p \in (IF feed \in {"mixed", "rows"} THEN ParamChoices ELSE {DefaultParams}) :
        LET err == InitError(p[1], p[2], p[3], p[4], p[5])
        IN  /\ self' = IF err = "" THEN NewInstance(p[1], p[2], p[3], p[4], p[5]) ELSE self
            /\ raised' = IF err = "" THEN "" ELSE "ValueError"
            /\ result' = IF err = "" THEN "PurePriceActionStrategy" ELSE NoneValue
            /\ log' = IF err = "" THEN <<Record("info", "initialized")>> ELSE <<>>
            /\ params' = p
    /\ op' = "__init__"
    /\ UNCHANGED <<klines, df, trace, feed, polls, appended, calc, pair>>

\* strategy.get_signal(k), an exception being raised inside at `fault`
GetSignal(k, fault) ==
    /\ self.constructed
    /\ \E out \in {GetSignalCall(self, k, fault)} :
           /\ self' = out.self
           /\ df' = out.frame
           /\ result' = out.ret
           /\ raised' = out.raised
           /\ log' = out.log
           /\ trace' = out.trace
           /\ appended' = IF Len(out.self.signal_history) = 0 \/ out.self.signal_history = self.signal_history
                          THEN appended
                          ELSE Append(appended, out.self.signal_history[Len(out.self.signal_history)])
    /\ klines' = k
    /\ polls' = polls + 1
    /\ op' = "get_signal"
    /\ UNCHANGED <<feed, params, calc, pair>>

GetSignalMixed ==
    /\ feed = "mixed" /\ polls < MaxCalls
    /\ \E k \in Catalogue : GetSignal(k, NoFault)

GetSignalFaulty ==
    /\ feed = "faulty" /\ polls < MaxFaultCalls
    /\ \E k \in FaultCatalogue : \E f \in Faults(k) : GetSignal(k, f)

GetSignalSteady ==
    /\ feed = "steady" /\ polls < MaxPolls
    /\ GetSignal(Window(Quiet \o <<EngulfGreen>>, polls), NoFault)

GetSignalStarved ==
    /\ feed = "starved" /\ polls < MaxPolls
    /\ GetSignal(Window(Repeat(SmallRed, 5), polls), NoFault)

GetSignalRows ==
    /\ feed = "rows" /\ polls = 0
    /\ \E k \in RichWindows : GetSignal(k, NoFault)

Next ==
    \/ Construct
    \/ GetSignalMixed
    \/ GetSignalFaulty
    \/ GetSignalSteady
    \/ GetSignalStarved
    \/ GetSignalRows

Spec == Init /\ [][Next]_vars

---------------------------------------------------------------------------
(* The calculations applied to price lists *)

MaxSeries == 4         \* longest price list
MaxWindow == 3         \* largest window
Prices == {NonePrice, NaN, 0, 4, 5}
Series == UNION {[1..n -> Prices] : n \in 0..MaxSeries}

InitCalc ==
    /\ self = NoInstance
    /\ params = <<>>
    /\ klines = <<>>
    /\ df = NoFrame
    /\ result = NoneValue
    /\ raised = ""
    /\ log = <<>>
    /\ trace = <<>>
    /\ feed = "prices"
    /\ polls = 0
    /\ appended = <<>>
    /\ op = ""
    /\ \E prices \in Series, window \in 1..MaxWindow :
           calc = [NoCalc EXCEPT !.prices = prices, !.window = window]
    /\ pair = NoPair

\* strategy.calculate_price_momentum(prices, window)
CalculatePriceMomentum ==
    /\ calc' = [calc EXCEPT !.fn = "calculate_price_momentum",
                            !.value = calculate_price_momentum(calc.prices, calc.window)]
    /\ UNCHANGED <<self, params, klines, df, result, raised, log, trace, feed, polls, appended, op, pair>>

\* strategy.calculate_volatility(prices, window)
CalculateVolatility ==
    /\ calc' = [calc EXCEPT !.fn = "calculate_volatility",
                            !.value = calculate_volatility(calc.prices, calc.window)]
    /\ UNCHANGED <<self, params, klines, df, result, raised, log, trace, feed, polls, appended, op, pair>>

NextCalc ==
    \/ CalculatePriceMomentum
    \/ CalculateVolatility

SpecCalc == InitCalc /\ [][NextCalc]_vars

---------------------------------------------------------------------------
(* A caller holding two instances, A and B *)

MaxPairCalls == 2      \* get_signal calls of a caller holding two instances
StrategyNames == {"PurePriceActionStrategy", "SmartTrendCatcher", "Unknown"}
PairWindows ==
    {Window(Repeat(SmallRed, 5), 0),
     Window(Quiet \o Rally, 0),
     Window(Rally \o Quiet \o <<EngulfGreen>>, 3),
     Window(Quiet \o SubSeq(Quiet, 1, 8) \o <<DeepWick, SmallRed, ShootingStar, EngulfSmall>>, 7)}

InitPair ==
    /\ self = NoInstance
    /\ params = <<>>
    /\ klines = <<>>
    /\ df = NoFrame
    /\ result = NoneValue
    /\ raised = ""
    /\ log = <<>>
    /\ trace = <<>>
    /\ feed = "pair"
    /\ polls = 0
    /\ appended = <<>>
    /\ op = ""
    /\ calc = NoCalc
    /\ pair = NoPair

\* the holder `slot` takes the instance get_strategy(strategy_name) returns; `alone` is
\* B as it would be with no other instance around
Obtain(slot, strategy_name) ==
    \E out \in {get_strategy(pair.heap, strategy_name)} :
        /\ pair' = IF slot = "A"
                   THEN [pair EXCEPT !.heap = out.heap, !.a = out.ret, !.target = "A"]
                   ELSE [pair EXCEPT !.heap = out.heap, !.b = out.ret, !.target = "B",
                                     !.alone = Configured]
        /\ log' = out.log
        /\ result' = "PurePriceActionStrategy"
        /\ raised' = ""
        /\ op' = "get_strategy"
        /\ UNCHANGED <<self, params, klines, df, trace, feed, polls, appended, calc>>

\* the holder `slot` takes a new PurePriceActionStrategy(p)
ConstructFor(slot, p) ==
    /\ InitError(p[1], p[2], p[3], p[4], p[5]) = ""
    /\ \E made \in {NewInstance(p[1], p[2], p[3], p[4], p[5])} :
        pair' = IF slot = "A"
                THEN [pair EXCEPT !.heap = Append(@, made), !.a = Len(pair.heap) + 1,
                                  !.target = "A"]
                ELSE [pair EXCEPT !.heap = Append(@, made), !.b = Len(pair.heap) + 1,
                                  !.target = "B", !.alone = made]
    /\ log' = <<Record("info", "initialized")>>
    /\ result' = "PurePriceActionStrategy"
    /\ raised' = ""
    /\ op' = "__init__"
    /\ UNCHANGED <<self, params, klines, df, trace, feed, polls, appended, calc>>

ObtainA ==
    /\ pair.a = 0
    /\ \/ \E n \in StrategyNames : Obtain("A", n)
       \/ ConstructFor("A", DefaultParams)

ObtainB ==
    /\ pair.a # 0 /\ pair.b = 0
    /\ \/ \E n \in StrategyNames : Obtain("B", n)
       \/ ConstructFor("B", DefaultParams)

\* get_signal(k) on the instance at position id; a call on B is also made on `alone`
GetSignalOn(slot, id, k) ==
    /\ pair.calls < MaxPairCalls
    /\ \E out \in {GetSignalCall(pair.heap[id], k, NoFault)} :
           /\ pair' = IF slot = "A"
                      THEN [pair EXCEPT !.heap[id] = out.self, !.target = "A",
                                        !.calls = @ + 1]
                      ELSE [pair EXCEPT !.heap[id] = out.self, !.target = "B",
                                        !.calls = @ + 1,
                                        !.alone = GetSignalCall(pair.alone, k, NoFault).self,
                                        !.expected = GetSignalCall(pair.alone, k, NoFault).ret]
           /\ df' = out.frame
           /\ result' = out.ret
           /\ raised' = out.raised
           /\ log' = out.log
           /\ trace' = out.trace
    /\ klines' = k
    /\ op' = "get_signal"
    /\ UNCHANGED <<self, params, feed, polls, appended, calc>>

GetSignalA ==
    /\ pair.a # 0
    /\ \E k \in PairWindows : GetSignalOn("A", pair.a, k)

GetSignalB ==
    /\ pair.b # 0
    /\ \E k \in PairWindows : GetSignalOn("B", pair.b, k)

NextPair ==
    \/ ObtainA
    \/ ObtainB
    \/ GetSignalA
    \/ GetSignalB

SpecPair == InitPair /\ [][NextPair]_vars

---------------------------------------------------------------------------
(* _generate_price_action_signals applied to frames with given pattern columns *)

\* the frame add_indicators has built for a quiet window when the signal stage starts
PatternFrame ==
    GetSignalCall(NewInstance(DefaultParams[1], DefaultParams[2], DefaultParams[3],
                              DefaultParams[4], DefaultParams[5]),
                  Window(Quiet \o <<SmallGreen>>, 0), Fault("signals", -1)).frame.rows

BuyFlags == {"bullish_rejection", "pin_bar_bullish", "engulfing_bullish", "morning_star",
             "tweezer_bottom", "dragonfly_doji", "three_white_soldiers", "marubozu_bullish",
             "spinning_top", "bullish_breakout", "bullish_flag", "bullish_pennant"}
SellFlags == {"bearish_rejection", "pin_bar_bearish", "engulfing_bearish", "evening_star",
              "tweezer_top", "gravestone_doji", "three_black_crows", "marubozu_bearish",
              "spinning_bottom", "bearish_breakout", "bearish_flag", "bearish_pennant"}

\* the frame with the pattern columns of its last row set to `flags`, the row being in
\* both zones or in neither, with both zone strengths equal to `strength`
WithFlags(rows, flags, in_zone, strength) ==
    [rows EXCEPT ![Len(rows)] =
        flags @@ [in_support_zone |-> in_zone, in_resistance_zone |-> in_zone,
                  support_zone_strength |-> strength,
                  resistance_zone_strength |-> strength] @@ @]

InitScoring ==
    /\ self = NewInstance(DefaultParams[1], DefaultParams[2], DefaultParams[3],
                          DefaultParams[4], DefaultParams[5])
    /\ params = DefaultParams
    /\ klines = <<>>
    /\ \E names \in {BuyFlags, SellFlags} : \E flags \in [names -> BOOLEAN] :
       \E in_zone \in BOOLEAN, strength \in {min_zone_strength - 1, min_zone_strength} :
           df = [rows |-> WithFlags(PatternFrame, flags, in_zone, strength),
                 columns |-> {"klines", "indicators", "patterns"}]
    /\ result = NoneValue
    /\ raised = ""
    /\ log = <<>>
    /\ trace = <<>>
    /\ feed = "frames"
    /\ polls = 0
    /\ appended = <<>>
    /\ op = ""
    /\ calc = NoCalc
    /\ pair = NoPair

\* strategy._generate_price_action_signals(df)
GenerateSignals ==
    /\ "signals" \notin df.columns
    /\ df' = [rows |-> Signals(df.rows, self.lookback_period, self.momentum_window,
                               Len(df.rows)),
              columns |-> df.columns \cup {"signals"}]
    /\ op' = "_generate_price_action_signals"
    /\ UNCHANGED <<self, params, klines, result, raised, log, trace, feed, polls, appended,
                   calc, pair>>

NextScoring == GenerateSignals

SpecScoring == InitScoring /\ [][NextScoring]_vars

---------------------------------------------------------------------------
(* find_support_resistance applied to lists of highs and lows *)

MaxLevels == 5         \* longest list of highs or lows
MaxStrength == 2       \* largest strength
LevelLists == UNION {[1..n -> {1, 2}] : n \in 0..MaxLevels}

InitLevels ==
    /\ self = NoInstance
    /\ params = <<>>
    /\ klines = <<>>
    /\ df = NoFrame
    /\ result = NoneValue
    /\ raised = ""
    /\ log = <<>>
    /\ trace = <<>>
    /\ feed = "levels"
    /\ polls = 0
    /\ appended = <<>>
    /\ op = ""
    /\ \E highs \in LevelLists, lows \in LevelLists, strength \in 0..MaxStrength :
           calc = [fn |-> "", highs |-> highs, lows |-> lows, strength |-> strength,
                   value |-> <<>>]
    /\ pair = NoPair

\* strategy.find_support_resistance(highs, lows, strength)
FindSupportResistance ==
    /\ calc.fn = ""
    /\ calc' = [calc EXCEPT !.fn = "find_support_resistance",
                            !.value = find_support_resistance(calc.highs, calc.lows,
                                                              calc.strength)]
    /\ UNCHANGED <<self, params, klines, df, result, raised, log, trace, feed, polls,
                   appended, op, pair>>

NextLevels == FindSupportResistance

SpecLevels == InitLevels /\ [][NextLevels]_vars

---------------------------------------------------------------------------
(* detect_candlestick_patterns applied to lists of candles *)

MaxEarlier == 1        \* candles before the last two
ShapedCandles ==
    {Ohlc(o, h, l, c) : o \in {9, 10, 11, 12}, c \in {9, 10, 11, 12},
                        l \in {1, 2}, h \in {12, 32}}
BrokenCandles ==
    {[open |-> MissingKey, high |-> 12, low |-> 2, close |-> 11],
     [open |-> 10, high |-> 12, low |-> 2, close |-> NonePrice],
     Ohlc(10, 12, 0, 11), Ohlc(10, -5, 2, 11),
     Ohlc(9, 10, 2, 12), Ohlc(9, 12, 10, 12), Ohlc(10, 10, 10, 10)}
Candles == ShapedCandles \cup BrokenCandles
EarlierCandles == {Ohlc(11, 12, 1, 12), Ohlc(10, 10, 10, 10)}
OhlcLists ==
    {<<>>} \cup {<<candle>> : candle \in Candles}
    \cup {earlier \o <<prev, current>> :
            earlier \in UNION {[1..n -> EarlierCandles] : n \in 0..MaxEarlier},
            prev \in Candles, current \in Candles}

InitCandles ==
    /\ self = NoInstance
    /\ params = <<>>
    /\ klines = <<>>
    /\ df = NoFrame
    /\ result = NoneValue
    /\ raised = ""
    /\ log = <<>>
    /\ trace = <<>>
    /\ feed = "candles"
    /\ polls = 0
    /\ appended = <<>>
    /\ op = ""
    /\ \E ohlc_data \in OhlcLists :
           calc = [fn |-> "", ohlc_data |-> ohlc_data, value |-> NoneValue]
    /\ pair = NoPair

\* strategy.detect_candlestick_patterns(ohlc_data)
DetectCandlestickPatterns ==
    /\ calc.fn = ""
    /\ calc' = [calc EXCEPT !.fn = "detect_candlestick_patterns",
                            !.value = detect_candlestick_patterns(calc.ohlc_data)]
    /\ UNCHANGED <<self, params, klines, df, result, raised, log, trace, feed, polls,
                   appended, op, pair>>

NextCandles == DetectCandlestickPatterns

SpecCandles == InitCandles /\ [][NextCandles]_vars

---------------------------------------------------------------------------
(* Properties *)

Flags == {"buy_signal", "sell_signal", "hold_signal"}
HasSignals == op = "get_signal" /\ "signals" \in df.columns
Labels == {"BUY", "SELL", "HOLD"}
LoggedText(text) == \E j \in DOMAIN log : log[j][2] = text
LoggedLevel(level) == \E j \in DOMAIN log : log[j][1] = level
TooShort == Len(klines) = 0 \/ Len(klines) < MinRequired(self)

\* C1: once _generate_price_action_signals has run on a window, every row has exactly
\* one of buy_signal, sell_signal, hold_signal true and hold_signal = ~(buy_signal \/
\* sell_signal), the rows before the scoring start and the skipped rows included.
C1_OneFlagPerRow ==
    HasSignals =>
        \A k \in DOMAIN df.rows :
            /\ Cardinality({f \in Flags : df.rows[k][f]}) = 1
            /\ df.rows[k].hold_signal = ~(df.rows[k].buy_signal \/ df.rows[k].sell_signal)

\* a frame with an unscored row, a BUY row and a row skipped for a negative close
C1_Witness ==
    /\ HasSignals
    /\ \E k \in DOMAIN df.rows : ~df.rows[k].scored /\ k - 1 < 10
    /\ \E k \in DOMAIN df.rows : df.rows[k].buy_signal \/ df.rows[k].sell_signal
    /\ \E k \in DOMAIN df.rows : k - 1 >= 10 /\ SkipRow(df.rows[k])

C3_ZoneFirst ==
    HasSignals =>
        \A k \in DOMAIN df.rows :
            LET r == df.rows[k]
            IN  /\ r.buy_signal =>
                    InStrongSupportZone(r) \/ 1000 * r.close > 1003 * r.resistance
                /\ r.sell_signal =>
                    InStrongResistanceZone(r) \/ 1000 * r.close < 997 * r.support

\* C4: get_signal returns one of 'BUY', 'SELL', 'HOLD', None and lets no exception
\* propagate, whatever the window holds.
C4_LabelOrNone ==
    op = "get_signal" => result \in Labels \cup {NoneValue} /\ raised = ""

\* a call in which the outer handler of get_signal caught an exception
C4_Witness ==
    /\ op = "get_signal" /\ result = NoneValue
    /\ LoggedText("Error in price action signal generation")

\* the last n entries of a sequence
LastN(seq, n) == SubSeq(seq, Len(seq) - Min2(n, Len(seq)) + 1, Len(seq))

\* C5: after any sequence of get_signal calls signal_history holds at most 100 entries
\* and is the most recent (up to 100) appended entries in append order: a full history
\* discards its oldest entry.
C5_HistoryIsLastHundred ==
    self.constructed =>
        /\ Len(self.signal_history) <= 100
        /\ self.signal_history = LastN(appended, 100)

\* more than 100 entries were appended and the history holds the latest 100
C5_Witness ==
    /\ self.constructed /\ Len(appended) > 100
    /\ Len(self.signal_history) = 100
    /\ self.signal_history[1] = appended[Len(appended) - 99]
    /\ self.signal_history[1] # appended[1]

C7_WrongWidthRejected ==
    (/\ op = "get_signal" /\ ~TooShort
     /\ \E i \in DOMAIN klines : Len(klines[i]) # 12) =>
        /\ result = NoneValue
        /\ LoggedLevel("error")
        /\ trace = <<>>

\* C8: the constructor raises ValueError and creates no instance iff one of the five
\* parameters is <= 0; otherwise it succeeds and stores exactly the values given.
C8_ConstructorValidates ==
    op = "__init__" =>
        /\ (raised = "ValueError") <=> (\E i \in 1..5 : params[i] <= 0)
        /\ raised = "ValueError" => ~self.constructed
        /\ raised # "ValueError" =>
            /\ raised = "" /\ self.constructed
            /\ <<self.lookback_period, self.breakout_threshold, self.volatility_window,
                 self.momentum_window, self.sr_strength>> = params

\* a constructor call refused because of its last parameter alone
C8_Witness ==
    /\ op = "__init__" /\ raised = "ValueError" /\ ~self.constructed
    /\ params[5] = 0 /\ \A i \in 1..4 : params[i] > 0

\* what a call recorded for the last row of its frame
LastRowSignal(frame) ==
    IF "signals" \in frame.columns /\ Len(frame.rows) > 0
    THEN <<frame.rows[Len(frame.rows)].signal_strength,
           frame.rows[Len(frame.rows)].signal_reason>>
    ELSE <<>>

\* C9: get_signal called again on the same instance with the same window (no exception
\* being raised inside either call) returns the same label, and the signal_strength
\* and signal_reason of the last row are the same, whatever the first call left in
\* signal_history, last_signal and the warning counter.
C9_Idempotent ==
    [][(/\ feed # "faulty" /\ op = "get_signal" /\ op' = "get_signal"
        /\ klines' = klines)
       => (result' = result /\ LastRowSignal(df') = LastRowSignal(df))]_vars

\* the same window answered BUY twice in a row
C9_Witness ==
    /\ feed = "mixed" /\ op = "get_signal" /\ polls = 2 /\ result = "BUY"
    /\ Len(self.signal_history) = 2
    /\ self.signal_history[1] = self.signal_history[2]

StageErrors ==
    {"Error adding price action calculations", "Error adding price action patterns",
     "Error generating zone-based price action signals"}

\* C10: when an exception is raised inside add_indicators, _add_price_action_patterns
\* or _generate_price_action_signals, get_signal returns None for that call.
C10_InternalErrorGivesNone ==
    (op = "get_signal" /\ \E t \in StageErrors : LoggedText(t)) => result = NoneValue

\* the frame of the last call went through the cleaning of add_indicators
Cleaned == op = "get_signal" /\ "indicators" \in df.columns

\* C11: cleaning treats zero and negative prices alike: after it no price column that
\* has a valid value holds a value <= 0.
C11_NoPriceAtOrBelowZero ==
    Cleaned =>
        \A j \in DOMAIN price_cols :
            (\E k \in DOMAIN df.rows : df.rows[k][price_cols[j]] > 0)
                => \A k \in DOMAIN df.rows : df.rows[k][price_cols[j]] > 0

\* C12: after cleaning every candle has low <= min(open, close) <= max(open, close)
\* <= high, whatever window get_signal accepted.
C12_CandlesWellFormed ==
    Cleaned =>
        \A k \in DOMAIN df.rows :
            /\ df.rows[k].low <= Min2(df.rows[k].open, df.rows[k].close)
            /\ Max2(df.rows[k].open, df.rows[k].close) <= df.rows[k].high

\* the last row of the frame of the last call
Latest == df.rows[Len(df.rows)]
Because(row, text) == \E j \in DOMAIN row.signal_reason : row.signal_reason[j][1] = text

\* C13: scenario B: a last candle that is a bullish engulfing closing inside a support
\* band of strength 5 makes get_signal return BUY with signal_strength >= 4 and the
\* reason 'Bullish Engulfing at Support Zone'.
C13_EngulfingAtSupport ==
    (/\ HasSignals /\ result # NoneValue
     /\ Latest.engulfing_bullish /\ Latest.in_support_zone
     /\ Latest.support_zone_strength = 5) =>
        /\ result = "BUY"
        /\ Latest.signal_strength >= 4
        /\ Because(Latest, "Bullish Engulfing at Support Zone")

\* every candle of the frame is positive and has its open and close between low and high
WellFormed ==
    \A k \in DOMAIN df.rows :
        /\ df.rows[k].low > 0
        /\ df.rows[k].low <= Min2(df.rows[k].open, df.rows[k].close)
        /\ Max2(df.rows[k].open, df.rows[k].close) <= df.rows[k].high

\* the resistance the candles before the last one established: the highest high of
\* the lookback_period candles that precede it
PriorResistance ==
    SetMax({df.rows[k].high :
                k \in (Len(df.rows) - self.lookback_period)..(Len(df.rows) - 1)})

\* C14: scenario C: on a well-formed window whose last candle is green and strong-bodied,
\* closes 0.5% above resistance and has volume ratio 2.0, get_signal returns BUY and the
\* +4 'Volume-Confirmed Resistance Break' bonus is among the reasons.
C14_VolumeConfirmedBreak ==
    (/\ HasSignals /\ result # NoneValue /\ WellFormed
     /\ Len(df.rows) > self.lookback_period
     /\ Green(Latest) /\ 10 * Body(Latest) > 7 * Range(Latest)
     /\ 1000 * Latest.close >= 1005 * PriorResistance
     /\ ~FracIsNaN(Latest.volume_ratio) /\ ~FracLt(Latest.volume_ratio, 2, 1)) =>
        /\ result = "BUY"
        /\ Because(Latest, "Volume-Confirmed Resistance Break")

\* the window of the last call is flat: every candle has open = high = low = close at
\* one positive price, and the volume is constant
FlatWindow ==
    /\ Len(klines) > 0
    /\ \A i \in DOMAIN klines :
        /\ Len(klines[i]) = 12
        /\ klines[i][2] = klines[1][2] /\ klines[i][2] > 0
        /\ \A j \in 3..5 : klines[i][j] = klines[i][2]
        /\ klines[i][6] = klines[1][6] /\ klines[i][6] >= 0

\* C15: scenario A: on a flat window of sufficient length get_signal returns HOLD, the
\* last row has signal_strength 0, and both zones at that price are strong.
C15_FlatWindowHoldsStrongZones ==
    (op = "get_signal" /\ ~TooShort /\ FlatWindow) =>
        /\ result = "HOLD"
        /\ Latest.signal_strength = 0
        /\ InStrongSupportZone(Latest) /\ InStrongResistanceZone(Latest)

\* C15 as amended: on a flat window of sufficient length get_signal returns HOLD and
\* the last row has signal_strength 0; both zones have strength 2 * lookback_period,
\* so they are strong when lookback_period >= 2.
C15_FlatWindowHolds ==
    (op = "get_signal" /\ ~TooShort /\ FlatWindow) =>
        /\ result = "HOLD"
        /\ Latest.signal_strength = 0 /\ Latest.buy_score = 0 /\ Latest.sell_score = 0
        /\ Latest.in_support_zone /\ Latest.in_resistance_zone
        /\ Latest.support_zone_strength = 2 * self.lookback_period
        /\ Latest.resistance_zone_strength = 2 * self.lookback_period

\* a flat window held while both of its zones are strong
C15_Witness ==
    /\ op = "get_signal" /\ ~TooShort /\ FlatWindow /\ result = "HOLD"
    /\ Latest.scored /\ InStrongSupportZone(Latest) /\ InStrongResistanceZone(Latest)

\* the lookback_period candles before row k of the analysed frame
Preceding(k) == (k - self.lookback_period)..(k - 1)
Within(x, level) ==
    1000 * x >= (1000 - ZoneWidth) * level /\ 1000 * x <= (1000 + ZoneWidth) * level
\* touches + time_in_zone + 2 * rejections of the resistance band of `level` over
\* the candles `rows` at the positions `window`
ResistanceStrengthOver(rows, window, level) ==
    Cardinality({j \in window : Within(rows[j].high, level)})
    + Cardinality({j \in window : Within(rows[j].close, level)})
    + 2 * Cardinality({j \in window :
            /\ 1000 * rows[j].high >= (1000 - ZoneWidth) * level
            /\ 1000 * rows[j].close < (1000 - ZoneWidth) * level})
SupportStrengthOver(rows, window, level) ==
    Cardinality({j \in window : Within(rows[j].low, level)})
    + Cardinality({j \in window : Within(rows[j].close, level)})
    + 2 * Cardinality({j \in window :
            /\ 1000 * rows[j].low <= (1000 + ZoneWidth) * level
            /\ 1000 * rows[j].close > (1000 + ZoneWidth) * level})
\* the rows with the high (the low) of candle j moved onto the level, so that it touches
TouchingHigh(rows, j, level) == [rows EXCEPT ![j].high = level]
TouchingLow(rows, j, level) == [rows EXCEPT ![j].low = level]

\* C16: for every row i >= lookback_period with a positive level both zone strengths
\* equal touches + time_in_zone + 2 * rejections over the lookback_period candles
\* preceding i; every zone strength is >= 0; making one candle of that window touch
\* the band does not lower the strength.
C16_ZoneStrengthFormula ==
    Cleaned => \A k \in DOMAIN df.rows :
        /\ df.rows[k].resistance_zone_strength >= 0
        /\ df.rows[k].support_zone_strength >= 0
        /\ (k > self.lookback_period /\ df.rows[k].resistance > 0) =>
            /\ df.rows[k].resistance_zone_strength =
                   ResistanceStrengthOver(df.rows, Preceding(k), df.rows[k].resistance)
            /\ \A j \in Preceding(k) :
                   ResistanceStrengthOver(TouchingHigh(df.rows, j, df.rows[k].resistance),
                                          Preceding(k), df.rows[k].resistance)
                       >= df.rows[k].resistance_zone_strength
        /\ (k > self.lookback_period /\ df.rows[k].support > 0) =>
            /\ df.rows[k].support_zone_strength =
                   SupportStrengthOver(df.rows, Preceding(k), df.rows[k].support)
            /\ \A j \in Preceding(k) :
                   SupportStrengthOver(TouchingLow(df.rows, j, df.rows[k].support),
                                       Preceding(k), df.rows[k].support)
                       >= df.rows[k].support_zone_strength

\* a scored row whose resistance band was touched, closed in and rejected from, with a
\* candle in the trailing window that does not touch it
C16_Witness ==
    /\ Cleaned
    /\ \E k \in DOMAIN df.rows :
        /\ k > self.lookback_period /\ df.rows[k].resistance > 0
        /\ df.rows[k].resistance_touches > 0
        /\ df.rows[k].resistance_zone_strength > df.rows[k].resistance_touches + 2
        /\ \E j \in Preceding(k) :
            /\ 1000 * df.rows[j].high >= (1000 - ZoneWidth) * df.rows[k].resistance
            /\ 1000 * df.rows[j].close < (1000 - ZoneWidth) * df.rows[k].resistance
        /\ \E j \in Preceding(k) : ~Within(df.rows[j].high, df.rows[k].resistance)
        /\ df.rows[k].support_zone_strength > 0

\* the arguments of the last calculation
Given == calc.prices
Size == Len(calc.prices)
Divisor == calc.prices[Size - calc.window]
Undefined(x) == x = NonePrice

C18_MinimumStrengthFour ==
    HasSignals => \A k \in DOMAIN df.rows :
        /\ (df.rows[k].buy_signal \/ df.rows[k].sell_signal) => df.rows[k].signal_strength >= 4
        /\ Max2(df.rows[k].buy_score, df.rows[k].sell_score) < 4 => df.rows[k].hold_signal

\* instance B of the caller holding two
InstanceB == pair.heap[pair.b]
Tuning(s) == <<s.lookback_period, s.breakout_threshold, s.volatility_window,
               s.momentum_window, s.sr_strength>>
State(s) == <<s.signal_history, s.last_signal, Tuning(s)>>

\* C19: instances are independent: a get_signal call on A leaves B's signal_history,
\* last_signal and tuning parameters unchanged, and B's state and results are those
\* of a B on which the same calls were made with no A around.
C19_InstancesIndependent ==
    /\ [](pair.b # 0 =>
            /\ State(InstanceB) = State(pair.alone)
            /\ (pair.target = "B" /\ op = "get_signal") => result = pair.expected)
    /\ [][(pair.b # 0 /\ pair'.target = "A" /\ pair'.calls = pair.calls + 1) =>
            State(pair'.heap[pair'.b]) = State(InstanceB)]_vars

\* A has just stored an entry while B, called before, keeps its own single entry
C19_Witness ==
    /\ pair.b # 0 /\ pair.target = "A" /\ op = "get_signal" /\ pair.calls = 2
    /\ Len(pair.heap[pair.a].signal_history) = 1
    /\ Len(InstanceB.signal_history) = 1
    /\ InstanceB.signal_history # pair.heap[pair.a].signal_history

\* the last row of the frame has a timestamp, a close and a momentum
Storable(row) ==
    row.timestamp # NaN /\ row.close # NaN /\ ~FracIsNaN(row.price_momentum)
\* the deque after one more entry
Pushed(history, entry) ==
    IF Len(history) < HistoryCap THEN Append(history, entry)
    ELSE Append(Tail(history), entry)

\* C20: a get_signal call that returns a label and whose last row has a non-NaN
\* timestamp, close and momentum appends exactly one entry to signal_history, carrying
\* that row's timestamp, the returned label, close, momentum, signal_strength and
\* signal_reason; a call that returns a label with one of the three NaN appends nothing.
C20_HistoryEntry ==
    [][(op' = "get_signal" /\ polls' = polls + 1 /\ result' \in Labels) =>
        LET row == df'.rows[Len(df'.rows)]
        IN  IF Storable(row)
            THEN self'.signal_history =
                    Pushed(self.signal_history,
                           [timestamp |-> row.timestamp, signal |-> result',
                            price |-> row.close, momentum |-> row.price_momentum,
                            signal_strength |-> row.signal_strength,
                            signal_reason |-> row.signal_reason])
            ELSE self'.signal_history = self.signal_history]_vars

\* a BUY has just been stored behind an earlier entry
C20_Witness ==
    /\ HasSignals /\ result = "BUY" /\ Storable(Latest)
    /\ Len(self.signal_history) = 2
    /\ self.signal_history[2].signal = "BUY"
    /\ self.signal_history[2].timestamp = Latest.timestamp
    /\ self.signal_history[2].signal_strength >= 3

\* a label was returned for a last row without a timestamp, and nothing was stored
C20_NothingStored ==
    /\ HasSignals /\ result \in Labels /\ ~Storable(Latest)
    /\ Len(self.signal_history) = 0

\* the priority lists as <<column, reason, weight>>
SupportRejectionList ==
    <<<<"bullish_rejection", "Strong Bullish Rejection at Support Zone", 5>>,
      <<"pin_bar_bullish", "Bullish Pin Bar (Hammer) at Support Zone", 4>>,
      <<"engulfing_bullish", "Bullish Engulfing at Support Zone", 4>>,
      <<"morning_star", "Morning Star at Support Zone", 5>>,
      <<"tweezer_bottom", "Tweezer Bottom at Support Zone", 4>>,
      <<"dragonfly_doji", "Dragonfly Doji at Support Zone", 3>>,
      <<"three_white_soldiers", "Three White Soldiers at Support Zone", 5>>,
      <<"marubozu_bullish", "Bullish Marubozu at Support Zone", 4>> >>
ResistanceBreakoutList ==
    <<<<"bullish_breakout", "Strong Resistance Breakout", 5>>,
      <<"bullish_flag", "Bullish Flag Breakout", 5>>,
      <<"bullish_pennant", "Bullish Pennant Breakout", 5>>,
      <<"marubozu_bullish", "Bullish Marubozu Breakout", 4>>,
      <<"three_white_soldiers", "Three White Soldiers Breakout", 5>> >>
ResistanceRejectionList ==
    <<<<"bearish_rejection", "Strong Bearish Rejection at Resistance Zone", 5>>,
      <<"pin_bar_bearish", "Bearish Pin Bar (Shooting Star) at Resistance Zone", 4>>,
      <<"engulfing_bearish", "Bearish Engulfing at Resistance Zone", 4>>,
      <<"evening_star", "Evening Star at Resistance Zone", 5>>,
      <<"tweezer_top", "Tweezer Top at Resistance Zone", 4>>,
      <<"gravestone_doji", "Gravestone Doji at Resistance Zone", 3>>,
      <<"three_black_crows", "Three Black Crows at Resistance Zone", 5>>,
      <<"marubozu_bearish", "Bearish Marubozu at Resistance Zone", 4>> >>
SupportBreakdownList ==
    <<<<"bearish_breakout", "Strong Support Breakdown", 5>>,
      <<"bearish_flag", "Bearish Flag Breakdown", 5>>,
      <<"bearish_pennant", "Bearish Pennant Breakdown", 5>>,
      <<"marubozu_bearish", "Bearish Marubozu Breakdown", 4>>,
      <<"three_black_crows", "Three Black Crows Breakdown", 5>> >>
PriorityLists ==
    {SupportRejectionList, ResistanceBreakoutList, ResistanceRejectionList, SupportBreakdownList}

\* the positions of a list whose flag is true on the row, and the first of them
TrueAt(row, list) == {j \in DOMAIN list : row[list[j][1]]}
FirstTrue(row, list) == CHOOSE j \in TrueAt(row, list) : \A h \in TrueAt(row, list) : j <= h
\* the reasons of a list recorded on the row, and the weight the list added
Recorded(row, list) ==
    {j \in DOMAIN list : \E h \in DOMAIN row.signal_reason : row.signal_reason[h][1] = list[j][2]}
WeightOf(row, list) == IF TrueAt(row, list) = {} THEN 0 ELSE list[FirstTrue(row, list)][3]
Bonus(flag) == IF flag THEN 2 ELSE 0
Scoring == op = "_generate_price_action_signals"

\* C21: first-match rule: in the zone-rejection group and in the breakout/breakdown
\* group only the first true flag of the priority list contributes: the group adds the
\* weight of that entry (0 if none is true) and records one reason, naming that entry,
\* however many later entries are true.
C21_FirstMatchOnly ==
    Scoring =>
        /\ Latest.buy_score =
              (IF InStrongSupportZone(Latest)
               THEN WeightOf(Latest, SupportRejectionList) + Bonus(Latest.spinning_top) ELSE 0)
              + WeightOf(Latest, ResistanceBreakoutList)
        /\ Latest.sell_score =
              (IF InStrongResistanceZone(Latest)
               THEN WeightOf(Latest, ResistanceRejectionList) + Bonus(Latest.spinning_bottom)
               ELSE 0)
              + WeightOf(Latest, SupportBreakdownList)
        /\ ~Latest.hold_signal => \A list \in PriorityLists :
              Recorded(Latest, list) =
                 IF \/ TrueAt(Latest, list) = {}
                    \/ (list = SupportRejectionList /\ ~InStrongSupportZone(Latest))
                    \/ (list = ResistanceRejectionList /\ ~InStrongResistanceZone(Latest))
                 THEN {}
                 ELSE {FirstTrue(Latest, list)}

\* a BUY row in a strong support zone with three support-rejection flags and two
\* breakout flags true, the first of each group being neither the heaviest nor the last
C21_Witness ==
    /\ Scoring /\ Latest.buy_signal /\ InStrongSupportZone(Latest)
    /\ TrueAt(Latest, SupportRejectionList) = {3, 4, 6}
    /\ TrueAt(Latest, ResistanceBreakoutList) = {2}
    /\ Latest.signal_strength = 9

\* the row before row k of the analysed frame (the row itself for the first)
Previous(k) == IF k > 1 THEN df.rows[k - 1] ELSE df.rows[k]
\* the close is inside the band of the level and the zone strength reaches the minimum
Qualifies(close, level, strength) == Within(close, level) /\ strength >= 3
\* what the groups that need no zone add to the two scores
UngatedBuy(k) ==
    ScoreOf(ResistanceBreakoutHits(df.rows[k]) \o BuyContinuationHits(df.rows[k], Previous(k))
            \o BuyMomentumHits(df.rows[k], Previous(k)))
UngatedSell(k) ==
    ScoreOf(SupportBreakdownHits(df.rows[k]) \o SellContinuationHits(df.rows[k], Previous(k))
            \o SellMomentumHits(df.rows[k], Previous(k)))
Mentions(row, texts) ==
    \E h \in DOMAIN row.signal_reason : row.signal_reason[h][1] \in texts
SupportRejectionReasons ==
    {SupportRejectionList[j][2] : j \in DOMAIN SupportRejectionList}
        \cup {"Bullish Spinning Top at Support"}
ResistanceRejectionReasons ==
    {ResistanceRejectionList[j][2] : j \in DOMAIN ResistanceRejectionList}
        \cup {"Bearish Spinning Bottom at Resistance"}

\* C22: the support-rejection list and the spinning-top bonus add to buy_score only on
\* rows whose close is inside the support band and whose support_zone_strength is >= 3;
\* the resistance-rejection list and the spinning-bottom bonus add to sell_score only
\* where the close is inside the resistance band and resistance_zone_strength is >= 3;
\* each side is decided by its own zone alone.
C22_ZoneGatesRejection ==
    HasSignals => \A k \in DOMAIN df.rows : df.rows[k].scored =>
        /\ df.rows[k].buy_score = UngatedBuy(k) +
              (IF Qualifies(df.rows[k].close, df.rows[k].support, df.rows[k].support_zone_strength)
               THEN WeightOf(df.rows[k], SupportRejectionList) + Bonus(df.rows[k].spinning_top)
               ELSE 0)
        /\ df.rows[k].sell_score = UngatedSell(k) +
              (IF Qualifies(df.rows[k].close, df.rows[k].resistance,
                            df.rows[k].resistance_zone_strength)
               THEN WeightOf(df.rows[k], ResistanceRejectionList)
                        + Bonus(df.rows[k].spinning_bottom)
               ELSE 0)
        /\ Mentions(df.rows[k], SupportRejectionReasons) =>
              Qualifies(df.rows[k].close, df.rows[k].support, df.rows[k].support_zone_strength)
        /\ Mentions(df.rows[k], ResistanceRejectionReasons) =>
              Qualifies(df.rows[k].close, df.rows[k].resistance,
                        df.rows[k].resistance_zone_strength)

\* a row on which both sides qualify and both rejection lists add to their score
C22_Witness ==
    /\ HasSignals
    /\ \E k \in DOMAIN df.rows :
        /\ df.rows[k].scored
        /\ Qualifies(df.rows[k].close, df.rows[k].support, df.rows[k].support_zone_strength)
        /\ Qualifies(df.rows[k].close, df.rows[k].resistance,
                     df.rows[k].resistance_zone_strength)
        /\ WeightOf(df.rows[k], SupportRejectionList) > 0
        /\ WeightOf(df.rows[k], ResistanceRejectionList) > 0
        /\ df.rows[k].buy_score >= 3 /\ df.rows[k].sell_score >= 3

\* a scored row with a support-rejection flag outside a strong support zone
C22_Ungated ==
    /\ HasSignals
    /\ \E k \in DOMAIN df.rows :
        /\ df.rows[k].scored
        /\ df.rows[k].in_support_zone /\ df.rows[k].support_zone_strength < 3
        /\ WeightOf(df.rows[k], SupportRejectionList) > 0

\* the candle respects low <= min(open, close) <= max(open, close) <= high
Ordered(row) ==
    row.low <= Min2(row.open, row.close) /\ Max2(row.open, row.close) <= row.high
Flagged(row) == \E f \in DOMAIN NoPatterns : row[f]

\* C23: the pattern engine skips candle i whenever one of the four candles i-3..i
\* violates low <= min(open, close) <= max(open, close) <= high or has high = low: no
\* candle whose four-candle context holds such a row carries a true pattern flag.
C23_InvalidContextSkipped ==
    (op = "get_signal" /\ "patterns" \in df.columns) =>
        \A k \in DOMAIN df.rows :
            (k >= 4 /\ \E j \in (k - 3)..k :
                          ~Ordered(df.rows[j]) \/ df.rows[j].high = df.rows[j].low)
                => ~Flagged(df.rows[k])

\* every reason the scoring loop can append, in the order the loop reaches them, with
\* the score it is added to and its weight
ReasonTable ==
    List([j \in 1..8 |-> <<SupportRejectionList[j][2], "buy", SupportRejectionList[j][3]>>])
    \o <<<<"Bullish Spinning Top at Support", "buy", 2>>>>
    \o List([j \in 1..5 |-> <<ResistanceBreakoutList[j][2], "buy", ResistanceBreakoutList[j][3]>>])
    \o <<<<"Volume-Confirmed Resistance Break", "buy", 4>>,
         <<"Inside Bar Breakout", "buy", 3>>,
         <<"Outside Bar Bullish", "buy", 3>>,
         <<"Strong Momentum near Support", "buy", 2>>,
         <<"Momentum Continuation after Support Bounce", "buy", 3>>>>
    \o List([j \in 1..8 |-> <<ResistanceRejectionList[j][2], "sell", ResistanceRejectionList[j][3]>>])
    \o <<<<"Bearish Spinning Bottom at Resistance", "sell", 2>>>>
    \o List([j \in 1..5 |-> <<SupportBreakdownList[j][2], "sell", SupportBreakdownList[j][3]>>])
    \o <<<<"Volume-Confirmed Support Break", "sell", 4>>,
         <<"Inside Bar Breakdown", "sell", 3>>,
         <<"Outside Bar Bearish", "sell", 3>>,
         <<"Strong Negative Momentum near Resistance", "sell", 2>>,
         <<"Momentum Continuation after Resistance Rejection", "sell", 3>>>>
\* the place of a recorded reason in the table
PlaceOf(reason) == CHOOSE j \in DOMAIN ReasonTable : ReasonTable[j][1] = reason[1]
\* the weights of the recorded reasons that were added to the score of `side`
RECURSIVE WeightSum(_, _)
WeightSum(reasons, side) ==
    IF Len(reasons) = 0 THEN 0
    ELSE (IF ReasonTable[PlaceOf(Head(reasons))][2] = side
          THEN ReasonTable[PlaceOf(Head(reasons))][3] ELSE 0)
         + WeightSum(Tail(reasons), side)

\* C24: on every BUY row signal_strength equals buy_score and on every SELL row it
\* equals sell_score; signal_reason holds every reason accumulated for the row, buy side
\* and sell side, in accumulation order; on every HOLD row signal_strength is 0 and
\* signal_reason is empty whatever the scores.
C24_StrengthAndReasons ==
    HasSignals => \A k \in DOMAIN df.rows :
        /\ df.rows[k].buy_signal => df.rows[k].signal_strength = df.rows[k].buy_score
        /\ df.rows[k].sell_signal => df.rows[k].signal_strength = df.rows[k].sell_score
        /\ ~df.rows[k].hold_signal =>
            /\ \A h \in DOMAIN df.rows[k].signal_reason :
                   \E j \in DOMAIN ReasonTable : ReasonTable[j][1] = df.rows[k].signal_reason[h][1]
            /\ \A g, h \in DOMAIN df.rows[k].signal_reason :
                   g < h => PlaceOf(df.rows[k].signal_reason[g]) < PlaceOf(df.rows[k].signal_reason[h])
            /\ WeightSum(df.rows[k].signal_reason, "buy") = df.rows[k].buy_score
            /\ WeightSum(df.rows[k].signal_reason, "sell") = df.rows[k].sell_score
        /\ df.rows[k].hold_signal =>
              df.rows[k].signal_strength = 0 /\ df.rows[k].signal_reason = <<>>

\* a BUY row that also accumulated a sell-side reason
C24_Witness ==
    /\ HasSignals
    /\ \E k \in DOMAIN df.rows :
        /\ df.rows[k].buy_signal /\ df.rows[k].sell_score > 0
        /\ df.rows[k].signal_strength = df.rows[k].buy_score
        /\ WeightSum(df.rows[k].signal_reason, "sell") > 0

\* a HOLD row whose scores are both at the minimum or above
C24_HoldWithScores ==
    /\ HasSignals
    /\ \E k \in DOMAIN df.rows :
        df.rows[k].hold_signal /\ df.rows[k].buy_score >= 3 /\ df.rows[k].sell_score >= 3

\* the pattern loop analyses row k: the row and the three before it hold positive
\* prices, the row and the two before it have a range, and no exception cut the loop
Analysed(k) ==
    /\ k >= 4
    /\ \A j \in (k - 3)..k : ~InvalidCandle(df.rows[j])
    /\ \A j \in (k - 2)..k : df.rows[j].high # df.rows[j].low
    /\ ~LoggedText("Error adding price action patterns")
BodyOf(row) == IF row.close >= row.open THEN row.close - row.open ELSE row.open - row.close
RangeOf(row) == row.high - row.low
UpperOf(row) == row.high - (IF row.close >= row.open THEN row.close ELSE row.open)
LowerOf(row) == (IF row.close >= row.open THEN row.open ELSE row.close) - row.low

\* C25: pin bar rule: for every valid candle at index >= 3, pin_bar_bullish is true iff
\* body >= 5% of range, lower shadow > 2.5 x body and upper shadow < 0.4 x body;
\* pin_bar_bearish iff body >= 5% of range, upper shadow > 2.5 x body and lower shadow
\* < 0.4 x body.
C25_PinBarFivePercent ==
    (op = "get_signal" /\ "patterns" \in df.columns) =>
        \A k \in DOMAIN df.rows : Analysed(k) =>
            /\ df.rows[k].pin_bar_bullish <=>
                  /\ 100 * BodyOf(df.rows[k]) >= 5 * RangeOf(df.rows[k])
                  /\ 10 * LowerOf(df.rows[k]) > 25 * BodyOf(df.rows[k])
                  /\ 10 * UpperOf(df.rows[k]) < 4 * BodyOf(df.rows[k])
            /\ df.rows[k].pin_bar_bearish <=>
                  /\ 100 * BodyOf(df.rows[k]) >= 5 * RangeOf(df.rows[k])
                  /\ 10 * UpperOf(df.rows[k]) > 25 * BodyOf(df.rows[k])
                  /\ 10 * LowerOf(df.rows[k]) < 4 * BodyOf(df.rows[k])

\* C25 as amended: for every candle the pattern loop analyses, pin_bar_bullish is true
\* iff body > 10% of range, lower shadow > 2.5 x body and upper shadow < 0.4 x body;
\* pin_bar_bearish iff body > 10% of range, upper shadow > 2.5 x body and lower shadow
\* < 0.4 x body.
C25_PinBarTenPercent ==
    (op = "get_signal" /\ "patterns" \in df.columns) =>
        \A k \in DOMAIN df.rows : Analysed(k) =>
            /\ df.rows[k].pin_bar_bullish <=>
                  /\ 10 * BodyOf(df.rows[k]) > RangeOf(df.rows[k])
                  /\ 10 * LowerOf(df.rows[k]) > 25 * BodyOf(df.rows[k])
                  /\ 10 * UpperOf(df.rows[k]) < 4 * BodyOf(df.rows[k])
            /\ df.rows[k].pin_bar_bearish <=>
                  /\ 10 * BodyOf(df.rows[k]) > RangeOf(df.rows[k])
                  /\ 10 * UpperOf(df.rows[k]) > 25 * BodyOf(df.rows[k])
                  /\ 10 * LowerOf(df.rows[k]) < 4 * BodyOf(df.rows[k])

\* a candle of hammer shape whose body is 8% of its range and which is no pin bar
C25_Witness ==
    /\ op = "get_signal" /\ "patterns" \in df.columns
    /\ \E k \in DOMAIN df.rows :
        /\ Analysed(k) /\ ~df.rows[k].pin_bar_bullish
        /\ 100 * BodyOf(df.rows[k]) >= 5 * RangeOf(df.rows[k])
        /\ 10 * BodyOf(df.rows[k]) <= RangeOf(df.rows[k])
        /\ 10 * LowerOf(df.rows[k]) > 25 * BodyOf(df.rows[k])
        /\ 10 * UpperOf(df.rows[k]) < 4 * BodyOf(df.rows[k])

\* a frame with a bullish and one with a bearish pin bar
C25_Hammer ==
    /\ op = "get_signal" /\ "patterns" \in df.columns
    /\ \E k \in DOMAIN df.rows : Analysed(k) /\ df.rows[k].pin_bar_bullish
C25_ShootingStar ==
    /\ op = "get_signal" /\ "patterns" \in df.columns
    /\ \E k \in DOMAIN df.rows : Analysed(k) /\ df.rows[k].pin_bar_bearish

\* the positions (counted from 1) whose value is the strict maximum (minimum) of the
\* 2 * strength + 1 values centred on them
Peaks(list, strength) ==
    {i \in (strength + 1)..(Len(list) - strength) :
        \A j \in (i - strength)..(i + strength) : j # i => list[j] < list[i]}
Troughs(list, strength) ==
    {i \in (strength + 1)..(Len(list) - strength) :
        \A j \in (i - strength)..(i + strength) : j # i => list[j] > list[i]}
\* the values of a list at the positions `at`, in the order of the list
ValuesAt(list, at) ==
    List([n \in 1..Cardinality(at) |->
            list[CHOOSE i \in at : Cardinality({h \in at : h < i}) = n - 1]])

\* C26: find_support_resistance(highs, lows, strength) reports highs[i] as a resistance
\* level iff strength <= i < len - strength and highs[i] is strictly greater than every
\* other high of the 2 * strength + 1 window centred on i, and lows[i] as a support
\* level iff it is strictly less than every other low of its window; both lists are
\* empty when either list is shorter than 2 * strength + 1.
C26_StrictLocalExtremes ==
    calc.fn = "find_support_resistance" =>
        IF Len(calc.highs) < 2 * calc.strength + 1 \/ Len(calc.lows) < 2 * calc.strength + 1
        THEN calc.value = <<<<>>, <<>>>>
        ELSE /\ calc.value[1] = ValuesAt(calc.highs, Peaks(calc.highs, calc.strength))
             /\ calc.value[2] = ValuesAt(calc.lows, Troughs(calc.lows, calc.strength))

\* a call that reports one resistance level and leaves out a high that ties with its
\* neighbour, on lists of different lengths
C26_Witness ==
    /\ calc.fn = "find_support_resistance" /\ calc.strength = 1
    /\ calc.highs = <<1, 2, 1, 2, 2>> /\ calc.lows = <<2, 1, 2>>
    /\ calc.value = <<<<2>>, <<1>>>>

\* the call made and the last two candles it was given
Detected == calc.fn = "detect_candlestick_patterns"
Current == calc.ohlc_data[Len(calc.ohlc_data)]
Prior == calc.ohlc_data[Len(calc.ohlc_data) - 1]
\* a candle with all four prices present and positive and low <= open, close <= high
Sound(candle) ==
    /\ \A key \in {"open", "high", "low", "close"} :
          candle[key] \notin {MissingKey, NonePrice} /\ candle[key] > 0
    /\ candle.low <= candle.open /\ candle.low <= candle.close
    /\ candle.open <= candle.high /\ candle.close <= candle.high
Rejected ==
    \/ Len(calc.ohlc_data) < 2
    \/ ~Sound(Current) \/ ~Sound(Prior)
    \/ Current.high = Current.low
\* the shapes of the last candle against the one before it
IsHammer ==
    LET body == Abs(Current.close - Current.open)
    IN  /\ body > 0
        /\ Min2(Current.open, Current.close) - Current.low > 2 * body
        /\ 5 * (Current.high - Max2(Current.open, Current.close)) < body
IsEngulfing ==
    LET body  == Abs(Current.close - Current.open)
        prior == Abs(Prior.close - Prior.open)
    IN  /\ prior > 0 /\ body > prior
        /\ \/ /\ Current.close > Current.open /\ Prior.close < Prior.open
              /\ Current.close > Prior.open /\ Current.open < Prior.close
           \/ /\ Current.close < Current.open /\ Prior.close > Prior.open
              /\ Current.close < Prior.open /\ Current.open > Prior.close
IsDoji == 10 * Abs(Current.close - Current.open) < Current.high - Current.low

\* C27: detect_candlestick_patterns returns None whenever fewer than two candles are
\* given, or either of the last two candles has a missing or non-positive OHLC field
\* or violates low <= min(open, close) <= max(open, close) <= high, or the current
\* range is zero; otherwise it returns at most one label, hammer / hanging man taking
\* precedence over engulfing and engulfing over DOJI (body < 10% of the range).
C27_CandlestickPrecedence ==
    Detected =>
        IF Rejected THEN calc.value = NoneValue
        ELSE calc.value =
               IF IsHammer
               THEN (IF Current.close > Current.open THEN "BULLISH_HAMMER"
                     ELSE "BEARISH_HANGING_MAN")
               ELSE IF IsEngulfing
               THEN (IF Current.close > Current.open THEN "BULLISH_ENGULFING"
                     ELSE "BEARISH_ENGULFING")
               ELSE IF IsDoji THEN "DOJI"
               ELSE NoneValue

\* a green candle that is a hammer and engulfs the red candle before it: the hammer
\* is what is returned
C27_Witness ==
    /\ Detected /\ ~Rejected
    /\ IsHammer /\ IsEngulfing
    /\ Current.close > Current.open
    /\ calc.value = "BULLISH_HAMMER"

\* a red hammer-shaped candle with a body under a tenth of its range
C27_HangingManOverDoji ==
    /\ Detected /\ ~Rejected
    /\ IsHammer /\ IsDoji
    /\ calc.value = "BEARISH_HANGING_MAN"

\* an engulfing candle with a body under a tenth of its range that is no hammer
C27_EngulfingOverDoji ==
    /\ Detected /\ ~Rejected
    /\ ~IsHammer /\ IsEngulfing /\ IsDoji
    /\ calc.value = "BEARISH_ENGULFING"

\* the last two candles are sound but the call returns None on a missing key earlier
C27_RejectedOnMissingKey ==
    /\ Detected /\ Len(calc.ohlc_data) >= 2
    /\ Prior.open = MissingKey /\ Sound(Current)
    /\ calc.value = NoneValue

\* the rows of the frame that have lookback_period candles behind them, the row included
Levelled == {k \in DOMAIN df.rows : k >= self.lookback_period}
BreakReasons == {"Volume-Confirmed Resistance Break", "Volume-Confirmed Support Break"}

\* C28: on a window whose candles all satisfy low <= open, close <= high, every row
\* i >= lookback_period - 1 has support <= low <= close <= high <= resistance, because
\* the rolling levels include the current candle; so close > resistance * 1.003 and
\* close < support * 0.997 are false on every such row, and neither the volume-confirmed
\* break bonus nor the strong_breakout / strong_breakdown rules fire there.
C28_LevelsEncloseCandle ==
    (Cleaned /\ WellFormed) =>
        \A k \in Levelled :
            LET row == df.rows[k]
            IN  /\ row.support <= row.low /\ row.low <= row.close
                /\ row.close <= row.high /\ row.high <= row.resistance
                /\ ~(1000 * row.close > 1003 * row.resistance)
                /\ ~(1000 * row.close < 997 * row.support)
                /\ ~StrongBreakout(row) /\ ~StrongBreakdown(row)
                /\ "signals" \in df.columns => ~Mentions(row, BreakReasons)

\* a well-formed window whose last candle is green and strong-bodied, closes more than
\* 0.3% above the highest high of the candles before it on 1.5 times the usual volume,
\* and is scored without the volume-confirmed break
C28_Witness ==
    /\ HasSignals /\ WellFormed /\ result # NoneValue
    /\ Len(df.rows) > self.lookback_period
    /\ Green(Latest) /\ 10 * Body(Latest) > 7 * Range(Latest)
    /\ 1000 * Latest.close > 1003 * PriorResistance
    /\ FracGt(Latest.volume_ratio, 15, 10)
    /\ Latest.resistance = Latest.high
    /\ ~Mentions(Latest, BreakReasons)

\* the flags behind the composite flags, and the reasons the lists would give them
BullishRejectionFlags ==
    {"pin_bar_bullish", "engulfing_bullish", "morning_star", "tweezer_bottom", "dragonfly_doji"}
BearishRejectionFlags ==
    {"pin_bar_bearish", "engulfing_bearish", "evening_star", "tweezer_top", "gravestone_doji"}
BullishBreakoutFlags ==
    {"bullish_flag", "bullish_pennant", "marubozu_bullish", "three_white_soldiers"}
BearishBreakdownFlags ==
    {"bearish_flag", "bearish_pennant", "marubozu_bearish", "three_black_crows"}
ReasonsOf(list, flags) == {list[j][2] : j \in {h \in DOMAIN list : list[h][1] \in flags}}
AnyOf(row, flags) == \E flag \in flags : row[flag]
\* the row records the reason with the score it contributed
Scores(row, text, score, side) ==
    /\ Because(row, text)
    /\ (IF side = "buy" THEN row.buy_score ELSE row.sell_score) >= score

\* C29: the composite flags pre-empt the named entries behind them. On a row inside a
\* strong support zone where pin_bar_bullish, engulfing_bullish, morning_star,
\* tweezer_bottom or dragonfly_doji is true, bullish_rejection is true as well, the
\* rejection reason recorded is 'Strong Bullish Rejection at Support Zone' (weight 5),
\* and the reasons of those five entries are never recorded; whenever a flag of the
\* breakout list is true with resistance > 0 the breakout group records 'Strong
\* Resistance Breakout' (weight 5). The same holds, mirrored, on the sell side.
C29_CompositePreempts ==
    HasSignals =>
        \A k \in DOMAIN df.rows :
            LET row == df.rows[k]
            IN  /\ (row.in_support_zone /\ AnyOf(row, BullishRejectionFlags))
                       => row.bullish_rejection
                /\ (row.in_resistance_zone /\ AnyOf(row, BearishRejectionFlags))
                       => row.bearish_rejection
                /\ (Gt(row.resistance, 0) /\ AnyOf(row, BullishBreakoutFlags))
                       => row.bullish_breakout
                /\ (Gt(row.support, 0) /\ AnyOf(row, BearishBreakdownFlags))
                       => row.bearish_breakout
                /\ ~Mentions(row, ReasonsOf(SupportRejectionList, BullishRejectionFlags))
                /\ ~Mentions(row, ReasonsOf(ResistanceRejectionList, BearishRejectionFlags))
                /\ (row.buy_signal /\ InStrongSupportZone(row)
                      /\ AnyOf(row, BullishRejectionFlags))
                       => Scores(row, "Strong Bullish Rejection at Support Zone", 5, "buy")
                /\ (row.sell_signal /\ InStrongResistanceZone(row)
                      /\ AnyOf(row, BearishRejectionFlags))
                       => Scores(row, "Strong Bearish Rejection at Resistance Zone", 5, "sell")
                /\ (row.buy_signal /\ Gt(row.resistance, 0)
                      /\ AnyOf(row, BullishBreakoutFlags))
                       => Scores(row, "Strong Resistance Breakout", 5, "buy")
                /\ (row.sell_signal /\ Gt(row.support, 0)
                      /\ AnyOf(row, BearishBreakdownFlags))
                       => Scores(row, "Strong Support Breakdown", 5, "sell")

\* a BUY on a bullish engulfing inside a strong support zone, recorded as the composite
C29_Witness ==
    /\ HasSignals /\ result = "BUY"
    /\ InStrongSupportZone(Latest) /\ Latest.engulfing_bullish
    /\ Because(Latest, "Strong Bullish Rejection at Support Zone")
    /\ ~Because(Latest, "Bullish Engulfing at Support Zone")

\* a SELL on a bearish marubozu above a positive support, recorded as the composite
C29_BreakdownRecorded ==
    /\ HasSignals /\ result = "SELL"
    /\ Gt(Latest.support, 0) /\ Latest.marubozu_bearish
    /\ Because(Latest, "Strong Support Breakdown")

\* a SELL on a shooting star or bearish engulfing inside a strong resistance zone
C29_BearishRecorded ==
    /\ HasSignals /\ result = "SELL"
    /\ InStrongResistanceZone(Latest) /\ AnyOf(Latest, BearishRejectionFlags)
    /\ Because(Latest, "Strong Bearish Rejection at Resistance Zone")

\* a get_signal call has just returned on the instance
Called == op' = "get_signal" /\ polls' = polls + 1

\* C30: in any sequence of get_signal calls on one instance, a call that returns None
\* (too short a window, wrong field count, unrecoverable NaNs, missing signal columns or
\* a caught exception) leaves signal_history and last_signal as they were before the
\* call, and after a call that returns a label last_signal is that label; last_signal
\* is None until a call has returned a label.
C30_NoneLeavesStateAlone ==
    /\ []((self.constructed /\ polls = 0) => self.last_signal = NoneValue)
    /\ [][/\ (Called /\ result' = NoneValue) =>
                /\ self'.signal_history = self.signal_history
                /\ self'.last_signal = self.last_signal
          /\ (Called /\ result' \in Labels) => self'.last_signal = result'
          /\ (self.constructed /\ ~Called) =>
                /\ self'.signal_history = self.signal_history
                /\ self'.last_signal = self.last_signal]_vars

\* a call has just returned None after an exception was caught, on an instance that
\* still holds the label and the history entry of an earlier call
C30_Witness ==
    /\ op = "get_signal" /\ polls >= 2 /\ result = NoneValue
    /\ LoggedText("Error in price action signal generation")
    /\ self.last_signal \in Labels
    /\ Len(self.signal_history) >= 1

\* the other ways of returning None, each after an earlier label
C30_AfterShortWindow ==
    /\ op = "get_signal" /\ result = NoneValue /\ TooShort
    /\ self.last_signal \in Labels /\ Len(self.signal_history) >= 1
C30_AfterWrongWidth ==
    /\ op = "get_signal" /\ result = NoneValue
    /\ LoggedText("Invalid klines format: expected 12 columns")
    /\ self.last_signal \in Labels /\ Len(self.signal_history) >= 1
C30_AfterMissingPrices ==
    /\ op = "get_signal" /\ result = NoneValue
    /\ LoggedText("Failed to clean price data after interpolation")
    /\ self.last_signal \in Labels /\ Len(self.signal_history) >= 1
C30_AfterMissingColumns ==
    /\ op = "get_signal" /\ result = NoneValue
    /\ LoggedText("Missing required column")
    /\ self.last_signal \in Labels /\ Len(self.signal_history) >= 1

=============================================================================
